---- MODULE Spec2Model ----
(***************************************************************************)
(* State-machine model of the agent-bridge platform (Proxy + Hub).         *)
(*                                                                         *)
(* Fourteen specifications share this module:                              *)
(*   SpecProxy   - web-server/src/proxy.rs: ws_route, ProxyActor and the   *)
(*                 active_connections table.                               *)
(*   SpecHub     - websocket-server: routing.rs, StateManagerActor,        *)
(*                 RouterActor, client connections racing each other and   *)
(*                 one agent connection, as routing.rs and main.rs wire    *)
(*                 them together.                                          *)
(*   SpecSession - the client side of the Hub with message buffering and   *)
(*                 session snapshots (no agent).                           *)
(*   SpecAgents  - the agent side of the Hub with agent connections        *)
(*                 racing each other (no client).                          *)
(*   SpecClient  - one ClientSessionActor as a component: its mailbox,     *)
(*                 socket, delivery tracker, buffer and timers.            *)
(*   SpecGiveUp  - one AgentActor and the StateManager's connection        *)
(*                 monitor on a clock of seconds: heartbeat timeout,       *)
(*                 backoff and the monitor's sweep.                        *)
(*   SpecStore   - web-server: ClientRegistryActor (the session store),    *)
(*                 the HTTP handlers of api/sessions.rs as api/mod.rs      *)
(*                 mounts them, and the log the subscriber writes.         *)
(*   SpecAgentGate - upgrade requests on /ws/agent with any Authorization  *)
(*                 header, and the agent registration that follows.        *)
(*   SpecLink    - one ProxyActor and its upstream connection: dialling,   *)
(*                 heartbeat timeout, backoff and reconnection.            *)
(*   SpecRouter  - the RouterActor as a component: its two registries and  *)
(*                 what it offers to whom for any message it is sent.      *)
(*   SpecBacklog - one ClientSessionActor offered payloads up to and past  *)
(*                 the capacity of its buffer.                             *)
(*   SpecFlush   - SpecBacklog with the actor's handlers and its flush     *)
(*                 timer weakly fair.                                      *)
(*   SpecSnap    - StateManagerActor.sessions on a clock: snapshots saved, *)
(*                 asked for and cleaned up after their time to live.      *)
(*   SpecTally   - StateManagerActor.clients for one client id with its    *)
(*                 disconnection_count, and the id's connections.          *)
(*                                                                         *)
(* Option<T> values are modelled as sets with at most one element:         *)
(* {} is None and {x} is Some(x).  An actor mailbox is a FIFO sequence.    *)
(* A specification that does not use a group of variables leaves it at     *)
(* its initial value.                                                      *)
(***************************************************************************)
EXTENDS Integers, Sequences, FiniteSets, TLC

VARIABLES
    \* ---- Proxy (web-server/src/proxy.rs) ----
    active_connections,  \* ActiveConnections.connections: token -> Option<Addr<ProxyActor>>
    proxy,               \* the ProxyActor instances, by actor id
    route,               \* ws_route invocations in flight, by request id
    proxyStarts,         \* number of ProxyActor::started() calls so far (history)
    \* ---- Hub (websocket-server) ----
    sm_clients,          \* StateManagerActor.clients: client_id -> Option<ClientData>
    sm_agents,           \* StateManagerActor.agents["agent1"]: Option<AgentData>
    sm_sessions,         \* StateManagerActor.sessions: client_id -> Option<SessionState>
    sm_mailbox,          \* StateManagerActor's mailbox
    rt_clients,          \* RouterActor.clients: client_id -> Option<Addr<ClientSessionActor>>
    rt_agents,           \* RouterActor.agents["agent1"]: Option<Addr<AgentActor>>
    rt_mailbox,          \* RouterActor's mailbox
    cactor,              \* the ClientSessionActor instances, by actor id
    aactor,              \* the AgentActor instances, by actor id
    agent_upgrade,       \* the last upgrade request on /ws/agent and its answer
    \* ---- one ClientSessionActor as a component ----
    csa,                 \* the actor: connection, buffer, tracker, mailbox, socket
    now,                 \* the clock, in seconds
    stored,              \* the SessionState stored for the actor's id: Option<buffer>
    \* ---- the StateManager's registry and one agent connection, in time ----
    mon_agent,           \* the AgentActor: heartbeat, reconnect attempts, timers
    mon_agents,          \* StateManagerActor.agents["agent1"]: Option<AgentData>
    mon_mailbox,         \* StateManagerActor's mailbox
    mon_blocked,         \* the StateManager's thread waits for a lock it holds
    mon_swept,           \* when monitor_connections last ran (seconds)
    mon_now,             \* the clock, in seconds
    \* ---- the Session Store and the HTTP API (web-server) ----
    registry,            \* ClientRegistryActor: sessions, client_lookup, metrics
    store_now,           \* the clock, in seconds
    store_steps,         \* number of steps so far (history)
    store_reply,         \* the message the registry has just handled, and its answer
    http,                \* the HTTP step just taken, or the request that waits
    log,                 \* the log lines written so far
    \* ---- one ProxyActor and its connection to the Hub (web-server) ----
    link,                \* the actor, its dial tasks, timers and mailbox
    \* ---- the RouterActor as a component (websocket-server) ----
    router,              \* RouterActor: clients, agents, default_agent_id
    routed,              \* the message the Router has just handled and its try_sends
    \* ---- StateManagerActor.sessions on a clock ----
    snapshots,           \* the snapshot of one client id, the clock, the last reply
    \* ---- StateManagerActor.clients: one record and its metrics ----
    tally                \* the record of one client id, its connection, the mailbox

proxyVars == <<active_connections, proxy, route, proxyStarts>>
hubVars == <<sm_clients, sm_agents, sm_sessions, sm_mailbox,
             rt_clients, rt_agents, rt_mailbox, cactor, aactor, agent_upgrade>>

clientVars == <<csa, now, stored>>

monVars == <<mon_agent, mon_agents, mon_mailbox, mon_blocked, mon_swept, mon_now>>

storeVars == <<registry, store_now, store_steps, store_reply, http, log>>

linkVars == <<link>>

\* The variables of the component specifications.
routerVars == <<router, routed>>

snapVars == <<snapshots>>

tallyVars == <<tally>>

compVars == <<linkVars, routerVars, snapVars, tallyVars>>

vars == <<proxyVars, hubVars, clientVars, monVars, storeVars, compVars>>

(***************************************************************************)
(* Bounds of the model.                                                    *)
(***************************************************************************)
MaxProxyActors == 2      \* upgrade requests (and so ProxyActors) per run
NumTokens == 2           \* distinct session tokens presented in cookies
NumClients == 2          \* distinct client ids

ProxyIds == 1..MaxProxyActors
Tokens == 1..NumTokens
ClientIds == 1..NumClients

\* The client_id of the session a token names (the Session Store's record).
TokenClient(t) == ((t - 1) % NumClients) + 1

(***************************************************************************)
(* Proxy: ws_route, ProxyActor, ActiveConnections                          *)
(***************************************************************************)

\* ProxyActor::new: the actor as ws_route builds it, before ws::start runs it.
ProxyActor_new(cid, tok) ==
    [st |-> "created", client_id |-> cid, session_token |-> tok,
     mailbox |-> <<>>, close_sent |-> FALSE,
     closedPrior |-> {}, startedAt |-> 0]

NoProxyActor ==
    [st |-> "unused", client_id |-> 1, session_token |-> {},
     mailbox |-> <<>>, close_sent |-> FALSE,
     closedPrior |-> {}, startedAt |-> 0]

\* A ws_route invocation: where it is, what the request carried (path_ok: the
\* path id parsed), what the registry answered and the response status.
NoRoute ==
    [pc |-> "idle", path_ok |-> TRUE, client_id |-> 1, cookie |-> {}, answer |-> "",
     existing |-> {}, status |-> 0]

InitProxy ==
    /\ active_connections = [t \in Tokens |-> {}]
    /\ proxy = [a \in ProxyIds |-> NoProxyActor]
    /\ route = [r \in ProxyIds |-> NoRoute]
    /\ proxyStarts = 0

\* ActiveConnections::register: DashMap::insert, whatever was there before.
register(conns, tok, a) == [conns EXCEPT ![tok] = {a}]

\* ActiveConnections::unregister: DashMap::remove by token alone; the entry is
\* removed whichever actor it names.
unregister(conns, tok, a) == [conns EXCEPT ![tok] = {}]

\* The next request slot: requests are numbered in the order they arrive.
NextRequest(r) ==
    /\ route[r].pc = "idle"
    /\ \A q \in ProxyIds : q < r => route[q].pc # "idle"

\* ws::start(proxy, &req, stream): the actor exists; started() runs when the
\* response stream is first polled.
ws_start(r, cid, tok, prior) ==
    /\ proxy' = [proxy EXCEPT ![r] =
                    [ProxyActor_new(cid, tok) EXCEPT !.closedPrior = prior]]
    /\ route' = [route EXCEPT ![r] =
                    [@ EXCEPT !.pc = "done", !.client_id = cid,
                              !.cookie = tok, !.status = 101]]

\* A DashMap Ref obtained by connections.get(token) is held by ws_route across
\* `existing_conn.send(..).await`: insert/remove on that token block meanwhile.
ShardHeld(tok) ==
    \E q \in ProxyIds : route[q].pc = "awaitClose" /\ route[q].cookie = {tok}

\* ws::start after a Success answer of the registry.
ws_start_validated(r, cid, tok, result) ==
    /\ proxy' = [proxy EXCEPT ![r] = ProxyActor_new(cid, tok)]
    /\ route' = [route EXCEPT ![r] =
                    [@ EXCEPT !.pc = "done", !.client_id = cid, !.cookie = tok,
                              !.answer = result, !.status = 101]]

\* ws_route up to its first await: parse the path id, read the cookie.
\*   malformed id          -> 400
\*   no cookie             -> the unauthenticated bridge: ws::start at once
\*   cookie                -> GetClientSession is sent to the registry
ws_route_begin(r, pathOk, cid, tok) ==
    /\ NextRequest(r)
    /\ IF ~pathOk
       THEN /\ route' = [route EXCEPT ![r] =
                   [@ EXCEPT !.pc = "done", !.path_ok = FALSE, !.status = 400]]
            /\ UNCHANGED proxy
       ELSE IF tok = {}
            THEN ws_start(r, cid, {}, {})
            ELSE /\ route' = [route EXCEPT ![r] =
                        [@ EXCEPT !.pc = "validating", !.client_id = cid, !.cookie = tok]]
                 /\ UNCHANGED proxy
    /\ UNCHANGED <<active_connections, proxyStarts, hubVars, clientVars, monVars, storeVars, compVars>>

\* ws_route after the registry's answer, without the comparison of the
\* session's client id with the path's.
ws_route_validated_any_client(r, result) ==
    /\ route[r].pc = "validating"
    /\ LET tok == CHOOSE t \in Tokens : route[r].cookie = {t}
           cid == route[r].client_id
       IN  IF result = "Success"
           THEN IF FALSE
                THEN /\ route' = [route EXCEPT ![r] =
                            [@ EXCEPT !.pc = "done", !.answer = result, !.status = 403]]
                     /\ UNCHANGED proxy
                ELSE IF active_connections[tok] # {}
                     THEN \* existing_conn.send(ProxyMessage::WebSocketClose).await
                          LET old == CHOOSE a \in ProxyIds : active_connections[tok] = {a}
                          IN  /\ route' = [route EXCEPT ![r] =
                                     [@ EXCEPT !.pc = "awaitClose", !.answer = result,
                                               !.existing = {old}]]
                              /\ proxy' = [proxy EXCEPT ![old].mailbox =
                                     IF proxy[old].st = "stopped" THEN @
                                     ELSE Append(@, [kind |-> "WebSocketClose", from |-> r])]
                     ELSE ws_start_validated(r, cid, {tok}, result)
           ELSE /\ route' = [route EXCEPT ![r] =
                       [@ EXCEPT !.pc = "done", !.answer = result, !.status = 401]]
                /\ UNCHANGED proxy
    /\ UNCHANGED <<active_connections, proxyStarts, hubVars, clientVars, monVars, storeVars, compVars>>

\* ws_route after the registry answered GetClientSession with `result`.
ws_route_validated(r, result) ==
    /\ route[r].pc = "validating"
    /\ LET tok == CHOOSE t \in Tokens : route[r].cookie = {t}
           cid == route[r].client_id
       IN  IF result = "Success"
           THEN IF TokenClient(tok) # cid
                THEN /\ route' = [route EXCEPT ![r] =
                            [@ EXCEPT !.pc = "done", !.answer = result, !.status = 403]]
                     /\ UNCHANGED proxy
                ELSE IF active_connections[tok] # {}
                     THEN \* existing_conn.send(ProxyMessage::WebSocketClose).await
                          LET old == CHOOSE a \in ProxyIds : active_connections[tok] = {a}
                          IN  /\ route' = [route EXCEPT ![r] =
                                     [@ EXCEPT !.pc = "awaitClose", !.answer = result,
                                               !.existing = {old}]]
                              /\ proxy' = [proxy EXCEPT ![old].mailbox =
                                     IF proxy[old].st = "stopped" THEN @
                                     ELSE Append(@, [kind |-> "WebSocketClose", from |-> r])]
                     ELSE ws_start_validated(r, cid, {tok}, result)
           ELSE /\ route' = [route EXCEPT ![r] =
                       [@ EXCEPT !.pc = "done", !.answer = result, !.status = 401]]
                /\ UNCHANGED proxy
    /\ UNCHANGED <<active_connections, proxyStarts, hubVars, clientVars, monVars, storeVars, compVars>>

\* ws_route resumes once the prior actor has handled the close message (or its
\* mailbox is closed: the send's error is ignored), then starts the new actor.
ws_route_close_sent(r) ==
    /\ route[r].pc = "awaitClose"
    /\ LET old == CHOOSE a \in ProxyIds : route[r].existing = {a}
       IN  /\ \/ proxy[old].st = "stopped"
              \/ \A i \in 1..Len(proxy[old].mailbox) : proxy[old].mailbox[i].from # r
           /\ ws_start(r, route[r].client_id, route[r].cookie, {old})
    /\ UNCHANGED <<active_connections, proxyStarts, hubVars, clientVars, monVars, storeVars, compVars>>

\* Actor::started for ProxyActor: registers ctx.address() under its token.
ProxyActor_started(a) ==
    /\ proxy[a].st = "created"
    /\ \A t \in proxy[a].session_token : ~ShardHeld(t)
    /\ proxyStarts' = proxyStarts + 1
    /\ proxy' = [proxy EXCEPT ![a] = [@ EXCEPT !.st = "running", !.startedAt = proxyStarts + 1]]
    /\ active_connections' =
          IF proxy[a].session_token = {} THEN active_connections
          ELSE register(active_connections,
                        CHOOSE t \in Tokens : proxy[a].session_token = {t}, a)
    /\ UNCHANGED <<route, hubVars, clientVars, monVars, storeVars, compVars>>

\* Handler<ProxyMessage>: WebSocketClose => ctx.close(None): a close frame goes
\* to the browser; the actor keeps running until the browser's stream ends.
ProxyActor_handle_ProxyMessage(a) ==
    /\ proxy[a].st = "running"
    /\ proxy[a].mailbox # <<>>
    /\ Head(proxy[a].mailbox).kind = "WebSocketClose"
    /\ proxy' = [proxy EXCEPT ![a] =
                    [@ EXCEPT !.mailbox = Tail(@), !.close_sent = TRUE]]
    /\ UNCHANGED <<active_connections, route, proxyStarts, hubVars, clientVars, monVars, storeVars, compVars>>

\* The browser's stream ends (its close reply, or the socket drops): the
\* StreamHandler finishes, the actor stops and Actor::stopped unregisters the
\* actor's session token.
ProxyActor_stopped(a) ==
    /\ proxy[a].st = "running"
    /\ \A t \in proxy[a].session_token : ~ShardHeld(t)
    /\ proxy' = [proxy EXCEPT ![a] = [@ EXCEPT !.st = "stopped", !.mailbox = <<>>]]
    /\ active_connections' =
          IF proxy[a].session_token = {} THEN active_connections
          ELSE unregister(active_connections,
                          CHOOSE t \in Tokens : proxy[a].session_token = {t}, a)
    /\ UNCHANGED <<route, proxyStarts, hubVars, clientVars, monVars, storeVars, compVars>>

NextProxy ==
    \/ \E r \in ProxyIds, pathOk \in BOOLEAN, cid \in ClientIds :
          \E tok \in {{}} \cup {{t} : t \in Tokens} : ws_route_begin(r, pathOk, cid, tok)
    \/ \E r \in ProxyIds, result \in {"Success", "Expired", "NotFound"} :
          ws_route_validated(r, result)
    \/ \E r \in ProxyIds : ws_route_close_sent(r)
    \/ \E a \in ProxyIds : ProxyActor_started(a)
    \/ \E a \in ProxyIds : ProxyActor_handle_ProxyMessage(a)
    \/ \E a \in ProxyIds : ProxyActor_stopped(a)

(***************************************************************************)
(* C1: last-writer-wins on the Proxy.  When an upgrade found a prior actor *)
(* registered under its token and closed it, then once that prior actor    *)
(* has stopped and the new actor is live (and no later actor has started   *)
(* under the token), active_connections maps the token to the new actor.   *)
(***************************************************************************)
C1_LastWriterWins ==
    \A new \in ProxyIds : \A old \in proxy[new].closedPrior :
        ( /\ proxy[new].st = "running"
          /\ proxy[old].st = "stopped"
          /\ \A b \in ProxyIds :
                (proxy[b].session_token = proxy[new].session_token
                    => proxy[b].startedAt <= proxy[new].startedAt) )
        => \A t \in proxy[new].session_token : active_connections[t] = {new}

(***************************************************************************)
(* Hub: routing.rs, StateManagerActor, RouterActor, ClientSessionActor,    *)
(* AgentActor, wired as main.rs and routing.rs wire them: the              *)
(* StateManager knows the Router (SetRouter); the connection actors are    *)
(* given the StateManager only, their `router` field stays None.           *)
(* Time is abstracted: a heartbeat tick may or may not observe a timeout.  *)
(* The traffic counters and timestamps of the registry are not modelled;   *)
(* the client actor's delivery tracker is modelled in SpecClient.  `sock`  *)
(* holds the payload frames written to a socket; pings, pongs, close       *)
(* frames and error replies are not kept.                                  *)
(***************************************************************************)
MaxClientActors == 2     \* client connections accepted per run
MaxAgentActors == 2      \* agent connections accepted per run
MaxHubAgents == 1        \* of which SpecHub, where clients race, explores this many
MaxBuffered == 2         \* messages buffered on an actor before it starts
MaxSMBacklog == 0        \* a sender runs when the StateManager mailbox holds at most this many
MaxRouterBacklog == 0    \* likewise for the Router mailbox
MaxTimeouts == 1         \* consecutive heartbeat timeouts of a client actor the model explores
MaxBackoffTimers == 1    \* pending run_later(backoff) closures per agent actor
MaxAgentAttempts == 2    \* AgentActor.reconnect_attempts the model explores
AgentMailboxCap == 2     \* messages an agent actor's mailbox holds (try_send fails beyond)

CActorIds == 1..MaxClientActors
AActorIds == 1..MaxAgentActors
HubAgentIds == 1..MaxHubAgents
HubClients == {"c1"}
ClientTexts == {"hello"}
BufferedContent(i) == IF i = 1 THEN "m1" ELSE IF i = 2 THEN "m2" ELSE "m3"

\* ClientSessionActor::new: max_reconnect_attempts.
client_max_reconnect_attempts == 5

\* A message to the StateManager.  All kinds share one record shape.
\* SMsg gives the fields a kind does not carry their empty value.
SMsg(k, id) ==
    [kind |-> k, id |-> id, addr |-> {}, state |-> "", is_message |-> FALSE,
     message_buffer |-> <<>>, session_data |-> {}]

\* A message to the Router.
RMsg(k, id) == [kind |-> k, id |-> id, addr |-> {}, content |-> ""]

\* A text frame written to a socket (the serialized message).
Frame(t, id, c) == [type |-> t, client_id |-> id, content |-> c]

\* ClientSessionActor::new followed by set_state_manager (client_ws_route):
\* router: None, is_connected: false, empty buffer, empty session_data.
ClientSessionActor_new(cid) ==
    [st |-> "created", client_id |-> cid, router |-> {}, is_connected |-> FALSE,
     message_buffer |-> <<>>, session_data |-> {}, reconnect_attempts |-> 0,
     mailbox |-> <<>>, waiting |-> FALSE, flush_timer |-> FALSE, sock |-> {}]

NoClientActor == [ClientSessionActor_new("c1") EXCEPT !.st = "unused"]

\* AgentActor::new followed by set_state_manager (agent_ws_route).
AgentActor_new ==
    [st |-> "created", id |-> "agent1", token |-> "", router |-> {},
     reconnect_attempts |-> 0, mailbox |-> <<>>, backoff_timers |-> 0, sock |-> {}]

NoAgentActor == [AgentActor_new EXCEPT !.st = "unused"]

\* No upgrade request on /ws/agent yet.
NoUpgrade == [header |-> {}, status |-> 0]

InitHubVars ==
    /\ sm_clients = [c \in HubClients |-> {}]
    /\ sm_agents = {}
    /\ sm_sessions = [c \in HubClients |-> {}]
    /\ sm_mailbox = <<>>
    /\ rt_clients = [c \in HubClients |-> {}]
    /\ rt_agents = {}
    /\ rt_mailbox = <<>>
    /\ cactor = [a \in CActorIds |-> NoClientActor]
    /\ aactor = [a \in AActorIds |-> NoAgentActor]
    /\ agent_upgrade = NoUpgrade

\* ---- The ClientSessionActor as a component --------------------------------
\* Bounds of the component's environment.
MaxSnapshot == 11     \* longest saved buffer (one more than a flush batch)
MaxFresh == 2         \* ClientActorMessage deliveries by the Router
MaxTime == 40         \* the clock stops here (seconds)
MaxPongs == 1         \* Pong frames from the client
MaxAcks == 1          \* texts with a message id from the client
LastDelivery == 5     \* the Router delivers up to this time (seconds)

\* A payload: who produced it, its rank there, and its "message_id" key.
Payload(src, n, mid) == [src |-> src, n |-> n, message_id |-> mid]
NoPayload == Payload("", 0, {})

\* SessionState.message_buffer holding k saved payloads m1..mk.
SavedBuffer(k) == [i \in 1..k |-> Payload("saved", i, {})]

\* ClientSessionActor::new together with MessageTracker::new, as routing.rs
\* wires it (set_state_manager only), with the whole of its runtime state.
SessionActor_new ==
    [st |-> "created", router |-> {}, is_connected |-> FALSE,
     last_heartbeat |-> 0, reconnect_attempts |-> 0,
     message_buffer |-> <<>>,
     last_sent_id |-> 0, pending_acks |-> {},
     mailbox |-> <<>>, waiting |-> FALSE, flush_timers |-> 0,
     sock |-> <<>>, to_state_manager |-> {},
     fresh |-> 0, pongs |-> 0, acks |-> 0]

\* The component at rest, for the specifications that do not run it.
InitSessionIdle ==
    /\ csa = SessionActor_new
    /\ now = 0
    /\ stored = {}

\* ---- The registry and one agent connection, in time ----------------------
MaxClock == 430       \* the clock stops here (seconds)
LastClose == 5        \* the agent's peer closes no later than this (seconds)

\* AgentActor::new, with the run_later timers it has pending (their due times).
TimedAgent_new ==
    [st |-> "created", last_heartbeat |-> 0, reconnect_attempts |-> 0,
     timers |-> {}, last_tick |-> 0, pings |-> 0]

\* After agent_ws_route: the actor is constructed and its RegisterAgent is
\* in the StateManager's mailbox.
InitMonitor ==
    /\ mon_agent = TimedAgent_new
    /\ mon_agents = {}
    /\ mon_mailbox = <<[kind |-> "RegisterAgent", state |-> ""]>>
    /\ mon_blocked = FALSE
    /\ mon_swept = 0
    /\ mon_now = 0

\* ---- The Session Store and the HTTP API ----------------------------------
MaxSessions == 2      \* sessions registered per run
MaxSteps == 4         \* registry messages, HTTP steps and clock steps per run
MaxWallets == 1       \* distinct wallet addresses

\* SessionMetrics::default(), without the average age.
SessionMetrics_default ==
    [total_sessions |-> 0, anonymous_sessions |-> 0,
     authenticated_sessions |-> 0, expired_count |-> 0]

\* ClientRegistryActor::new: both maps empty.  `minted` counts the ids drawn
\* so far: Uuid::new_v4 and create_session_token never repeat a value, so
\* the n-th registration gets client id n and token n.
ClientRegistryActor_new ==
    [sessions |-> {}, client_lookup |-> {}, metrics |-> SessionMetrics_default,
     minted |-> 0]

NoSessionReply ==
    [op |-> "", token |-> 0, client_id |-> 0, args |-> <<>>, result |-> "",
     session |-> {}]

\* An HTTP response body: the JSON fields the handlers write.
Body(error, status, client_id, created_at, is_authenticated, wallet_address,
     new_session, token) ==
    [error |-> error, status |-> status, client_id |-> client_id,
     created_at |-> created_at, is_authenticated |-> is_authenticated,
     wallet_address |-> wallet_address, new_session |-> new_session,
     token |-> token]

ErrorBody(error) == Body(error, "", 0, 0, FALSE, {}, FALSE, {})

NoHttp ==
    [method |-> "", path |-> "", id |-> 0, cookie |-> {},
     wallet |-> {}, bearer |-> {}, handler |-> "", pc |-> "done",
     status |-> 0, body |-> ErrorBody(""), set_cookie |-> {}]

InitStore ==
    /\ registry = ClientRegistryActor_new
    /\ store_now = 0
    /\ store_steps = 0
    /\ store_reply = NoSessionReply
    /\ http = NoHttp
    /\ log = {}

\* ---- One ProxyActor and its connection to the Hub ------------------------
MaxLinkAttempts == 65  \* ProxyActor.reconnect_attempts the model explores
MaxDials == 2          \* connection tasks of one actor alive at a time
MaxLinkTimers == 1     \* pending run_later(backoff) closures of one actor
LinkMailboxCap == 2    \* ProxyMessages waiting in the actor's mailbox

\* The two build profiles: overflow checks on (debug) or off (release).
Builds == {"debug", "release"}

\* ProxyActor::new as ws_route calls it, with the tasks, timers and messages
\* that belong to the actor.  delay is the Duration of the last run_later.
ProxyLink_new(build, tok) ==
    [build |-> build, st |-> "created", session_token |-> tok,
     ws_sink |-> FALSE, is_connected_to_server |-> FALSE,
     reconnect_attempts |-> 0, timers |-> 0, delay |-> {},
     dialing |-> 0, first_dial |-> FALSE, open |-> 0, mailbox |-> <<>>,
     to_browser |-> ""]

InitLinkIdle == link = ProxyLink_new("release", {})

\* ---- The RouterActor as a component --------------------------------------
MaxRouterClients == 2  \* client ids the Router sees
MaxRouterAgents == 3   \* agent ids the Router sees; agent 1 is "agent1"

RouterClientIds == 1..MaxRouterClients
RouterAgentIds == 1..MaxRouterAgents
ClientTarget(c) == <<"client", c>>
AgentTarget(g) == <<"agent", g>>
\* The addresses the Router holds: the mailboxes a try_send of its can reach.
ClientTargets == {ClientTarget(c) : c \in router.clients}
AgentTargets == {AgentTarget(g) : g \in router.agents}

\* RouterActor::new.
RouterActor_new == [clients |-> {}, agents |-> {}, default_agent_id |-> {1}]

NoEnvelope == [type |-> "", client_id |-> {}, target_client_id |-> {}]

InitRouter ==
    /\ router = RouterActor_new
    /\ routed = [msg |-> NoEnvelope, offers |-> {}]

\* ---- The StateManager's session snapshots on a clock ---------------------
MaxSnapClock == 4000  \* the clock stops here (seconds)
SnapTick == 100       \* the clock's step (seconds)
MaxSaves == 2         \* SaveSessionState messages handled

\* StateManagerActor::new: sessions is empty; start_monitoring_tasks arms
\* the session cleanup interval at the actor's start.
SnapshotStore_new ==
    [sessions |-> {}, now |-> 0, cleaned |-> 0, saves |-> 0,
     asked |-> FALSE, reply |-> {}]

InitSnap == snapshots = SnapshotStore_new

MaxConnections == 2   \* connections of the client id, one after the other
MaxActivity == 1      \* Pong frames of one connection

\* Before the client id's first connection: no record, no actor, an empty
\* mailbox; `ended` counts the connections that have ended (history).
Tally_new ==
    [conn |-> "none", reconnect_attempts |-> 0, pongs |-> 0, opened |-> 0,
     ended |-> 0, record |-> {}, mailbox |-> <<>>]

InitTally == tally = Tally_new

InitComp == InitLinkIdle /\ InitRouter /\ InitSnap /\ InitTally

InitMain == InitProxy /\ InitHubVars /\ InitSessionIdle /\ InitMonitor /\ InitStore

InitHub == InitMain /\ InitComp

\* The mailboxes are unbounded (do_send); the model explores the runs in which
\* a sender finds at most the backlog above in the receiver's mailbox.
SMCanTake == Len(sm_mailbox) <= MaxSMBacklog
RouterCanTake == Len(rt_mailbox) <= MaxRouterBacklog

TheOne(S) == CHOOSE x \in S : TRUE

Send(box, msgs) == box \o msgs

(***************************************************************************)
(* routing.rs                                                              *)
(***************************************************************************)

\* client_ws_route with a well-formed id: ClientSessionActor::new,
\* set_state_manager (and nothing else), ws::start_with_addr, then
\* RegisterClient {authenticated: false} to the StateManager.
client_ws_route(a, cid) ==
    /\ cactor[a].st = "unused"
    /\ \A b \in CActorIds : b < a => cactor[b].st # "unused"
    /\ SMCanTake
    /\ cactor' = [cactor EXCEPT ![a] = ClientSessionActor_new(cid)]
    /\ sm_mailbox' = Send(sm_mailbox, <<[SMsg("RegisterClient", cid) EXCEPT !.addr = {a}]>>)
    /\ UNCHANGED <<sm_clients, sm_agents, sm_sessions, rt_clients, rt_agents,
                   rt_mailbox, aactor, agent_upgrade, proxyVars, clientVars, monVars, storeVars, compVars>>

\* Config::default: the pre-shared agent token.
agent_token == "dev_token"

\* An Authorization header value that is not visible ASCII.
Opaque == "<bytes>"

\* The Authorization headers of the upgrade requests: none, the configured
\* token, another token, an empty value, an unreadable value.
Headers == {{}, {agent_token}, {"other_token"}, {""}, {Opaque}}

\* header.to_str().unwrap_or_default(): an unreadable value reads as "".
to_str(value) == IF value = Opaque THEN "" ELSE value

\* agent_ws_route without the comparison with the configured token.
agent_ws_route_any_token(a, header) ==
    /\ aactor[a].st = "unused"
    /\ \A b \in AActorIds : b < a => aactor[b].st # "unused"
    /\ IF header = {}
       THEN /\ agent_upgrade' = [header |-> header, status |-> 401]
            /\ UNCHANGED <<aactor, sm_mailbox>>
       ELSE /\ SMCanTake
            /\ agent_upgrade' = [header |-> header, status |-> 101]
            /\ aactor' = [aactor EXCEPT ![a] =
                             [AgentActor_new EXCEPT !.token = to_str(TheOne(header))]]
            /\ sm_mailbox' = Send(sm_mailbox,
                                  <<[SMsg("RegisterAgent", "agent1") EXCEPT !.addr = {a}]>>)
    /\ UNCHANGED <<sm_clients, sm_agents, sm_sessions, rt_clients, rt_agents,
                   rt_mailbox, cactor, proxyVars, clientVars, monVars, storeVars, compVars>>

\* agent_ws_route: 401 without an Authorization header or with one that does
\* not read as the configured token; else AgentActor::new("agent1", token),
\* set_state_manager (and nothing else), ws::start_with_addr, RegisterAgent.
agent_ws_route(a, header) ==
    /\ aactor[a].st = "unused"
    /\ \A b \in AActorIds : b < a => aactor[b].st # "unused"
    /\ IF header = {} \/ to_str(TheOne(header)) # agent_token
       THEN /\ agent_upgrade' = [header |-> header, status |-> 401]
            /\ UNCHANGED <<aactor, sm_mailbox>>
       ELSE /\ SMCanTake
            /\ agent_upgrade' = [header |-> header, status |-> 101]
            /\ aactor' = [aactor EXCEPT ![a] =
                             [AgentActor_new EXCEPT !.token = to_str(TheOne(header))]]
            /\ sm_mailbox' = Send(sm_mailbox,
                                  <<[SMsg("RegisterAgent", "agent1") EXCEPT !.addr = {a}]>>)
    /\ UNCHANGED <<sm_clients, sm_agents, sm_sessions, rt_clients, rt_agents,
                   rt_mailbox, cactor, proxyVars, clientVars, monVars, storeVars, compVars>>

(***************************************************************************)
(* ClientSessionActor                                                      *)
(***************************************************************************)

\* send_buffered_messages takes at most this many messages per batch.
flush_batch == 10

Min(x, y) == IF x <= y THEN x ELSE y

\* save_session_state: the SaveSessionState message built from the actor.
save_session_state(act) ==
    [SMsg("SaveSessionState", act.client_id) EXCEPT
        !.message_buffer = act.message_buffer, !.session_data = act.session_data]

UpdateClientState(act, state) ==
    [SMsg("UpdateClientState", act.client_id) EXCEPT !.state = state]

UnregisterClient(act) == SMsg("UnregisterClient", act.client_id)

ClientActivity(act, is_message) ==
    [SMsg("ClientActivity", act.client_id) EXCEPT !.is_message = is_message]

\* Actor::stopped for ClientSessionActor: what it sends to the StateManager.
\* (`router` is None, so nothing goes to the Router.)
ClientSessionActor_stopped_sends(act) ==
    <<save_session_state(act), UpdateClientState(act, "Disconnected"), UnregisterClient(act)>>

\* The actor once stopped: is_connected is false, its mailbox is closed.
ClientSessionActor_stopped(act) ==
    [act EXCEPT !.st = "stopped", !.is_connected = FALSE, !.mailbox = <<>>,
                !.flush_timer = FALSE]

\* send_buffered_messages on an actor: the first batch goes to the socket; a
\* timer is armed when messages remain.
send_buffered_messages(act) ==
    LET n == Min(flush_batch, Len(act.message_buffer))
    IN  [act EXCEPT
            !.sock = @ \cup {Frame("buffered", act.client_id, act.message_buffer[i]) : i \in 1..n},
            !.message_buffer = SubSeq(@, n + 1, Len(@)),
            !.flush_timer = (Len(act.message_buffer) > n)]

\* buffer_message, called on an actor that is not yet started: the message is
\* pushed to the buffer.
ClientSessionActor_buffer_message(a) ==
    /\ cactor[a].st = "created"
    /\ Len(cactor[a].message_buffer) < MaxBuffered
    /\ cactor' = [cactor EXCEPT ![a].message_buffer =
          Append(@, BufferedContent(Len(cactor[a].message_buffer) + 1))]
    /\ UNCHANGED <<sm_clients, sm_agents, sm_sessions, sm_mailbox, rt_clients,
                   rt_agents, rt_mailbox, aactor, agent_upgrade, proxyVars, clientVars, monVars, storeVars, compVars>>

\* Actor::started: is_connected, heartbeat, restore_session (GetSessionState
\* is sent and the context waits for the reply), UpdateClientState Connected,
\* a flush timer if the buffer is not empty.
ClientSessionActor_started(a) ==
    /\ cactor[a].st = "created"
    /\ SMCanTake
    /\ cactor' = [cactor EXCEPT ![a] =
          [@ EXCEPT !.st = "running", !.is_connected = TRUE, !.reconnect_attempts = 0,
                    !.waiting = TRUE, !.flush_timer = (cactor[a].message_buffer # <<>>)]]
    /\ sm_mailbox' = Send(sm_mailbox,
          <<[SMsg("GetSessionState", cactor[a].client_id) EXCEPT !.addr = {a}],
            UpdateClientState(cactor[a], "Connected")>>)
    /\ UNCHANGED <<sm_clients, sm_agents, sm_sessions, rt_clients, rt_agents,
                   rt_mailbox, aactor, agent_upgrade, proxyVars, clientVars, monVars, storeVars, compVars>>

\* The actor takes part in nothing while its context waits on restore_session.
\* A "closing" actor has answered the peer's Close frame and runs on until
\* the stream ends.
Live(act) == act.st \in {"running", "closing"}

ClientReady(a) == Live(cactor[a]) /\ ~cactor[a].waiting

\* The heartbeat interval closure observing a timeout (last_heartbeat older
\* than heartbeat_timeout): save, UpdateClientState Reconnecting,
\* reconnect_attempts += 1, and past max_reconnect_attempts the actor reports
\* Disconnected, unregisters and stops (stopped() then runs).
ClientSessionActor_heartbeat_timeout(a) ==
    /\ ClientReady(a)
    /\ cactor[a].reconnect_attempts < MaxTimeouts
    /\ SMCanTake
    /\ LET act == cactor[a]
           tried == [act EXCEPT !.reconnect_attempts = @ + 1]
           first == <<save_session_state(act), UpdateClientState(act, "Reconnecting")>>
       IN  IF tried.reconnect_attempts > client_max_reconnect_attempts
           THEN /\ cactor' = [cactor EXCEPT ![a] = ClientSessionActor_stopped(tried)]
                /\ sm_mailbox' = Send(sm_mailbox,
                      first \o <<UpdateClientState(act, "Disconnected"),
                                 UnregisterClient(act)>>
                            \o ClientSessionActor_stopped_sends(tried))
           ELSE /\ cactor' = [cactor EXCEPT ![a] = tried]
                /\ sm_mailbox' = Send(sm_mailbox, first)
    /\ UNCHANGED <<sm_clients, sm_agents, sm_sessions, rt_clients, rt_agents,
                   rt_mailbox, aactor, agent_upgrade, proxyVars, clientVars, monVars, storeVars, compVars>>

\* The run_later(100 ms) closure armed by started() or by a partial flush.
ClientSessionActor_flush_timer(a) ==
    /\ ClientReady(a)
    /\ cactor[a].flush_timer
    /\ cactor' = [cactor EXCEPT ![a] = send_buffered_messages(@)]
    /\ UNCHANGED <<sm_clients, sm_agents, sm_sessions, sm_mailbox, rt_clients,
                   rt_agents, rt_mailbox, aactor, agent_upgrade, proxyVars, clientVars, monVars, storeVars, compVars>>

\* StreamHandler, Ping and Pong: last_heartbeat, ClientActivity(false),
\* reconnect_attempts back to 0.
ClientSessionActor_handle_Pong(a) ==
    /\ ClientReady(a)
    /\ SMCanTake
    /\ cactor' = [cactor EXCEPT ![a].reconnect_attempts = 0]
    /\ sm_mailbox' = Send(sm_mailbox, <<ClientActivity(cactor[a], FALSE)>>)
    /\ UNCHANGED <<sm_clients, sm_agents, sm_sessions, rt_clients, rt_agents,
                   rt_mailbox, aactor, agent_upgrade, proxyVars, clientVars, monVars, storeVars, compVars>>

\* StreamHandler, Text: ClientActivity(true), then handle_client_message.  A
\* text without "message_id": is no acknowledgement.  The ClientMessage goes
\* to the Router when `router` is set; otherwise the peer is answered
\* {"error":"Router not configured"} and nothing is forwarded.
ClientSessionActor_handle_Text(a, text) ==
    /\ ClientReady(a)
    /\ SMCanTake
    /\ sm_mailbox' = Send(sm_mailbox, <<ClientActivity(cactor[a], TRUE)>>)
    /\ IF cactor[a].router # {}
       THEN /\ rt_mailbox' = Append(rt_mailbox,
                   [RMsg("ClientMessage", cactor[a].client_id) EXCEPT !.content = text])
       ELSE UNCHANGED rt_mailbox
    /\ UNCHANGED cactor
    /\ UNCHANGED <<sm_clients, sm_agents, sm_sessions, rt_clients, rt_agents,
                   aactor, agent_upgrade, proxyVars, clientVars, monVars, storeVars, compVars>>

\* StreamHandler, Binary: ClientActivity(true) and an error reply.
ClientSessionActor_handle_Binary(a) ==
    /\ ClientReady(a)
    /\ SMCanTake
    /\ sm_mailbox' = Send(sm_mailbox, <<ClientActivity(cactor[a], TRUE)>>)
    /\ UNCHANGED <<sm_clients, sm_agents, sm_sessions, rt_clients, rt_agents,
                   rt_mailbox, cactor, aactor, agent_upgrade, proxyVars, clientVars, monVars, storeVars, compVars>>

\* StreamHandler, Close: save, UpdateClientState Disconnected, ctx.close: the
\* close frame is written; the actor stops when the peer's stream ends.
ClientSessionActor_handle_Close(a) ==
    /\ ClientReady(a)
    /\ SMCanTake
    /\ sm_mailbox' = Send(sm_mailbox,
          <<save_session_state(cactor[a]), UpdateClientState(cactor[a], "Disconnected")>>)
    /\ cactor' = [cactor EXCEPT ![a].st = "closing"]
    /\ UNCHANGED <<sm_clients, sm_agents, sm_sessions, rt_clients, rt_agents,
                   rt_mailbox, aactor, agent_upgrade, proxyVars, clientVars, monVars, storeVars, compVars>>

\* StreamHandler, Err(protocol error): save, UpdateClientState Error,
\* ctx.stop; stopped() then runs.
ClientSessionActor_handle_Err(a) ==
    /\ ClientReady(a)
    /\ SMCanTake
    /\ sm_mailbox' = Send(sm_mailbox,
          <<save_session_state(cactor[a]), UpdateClientState(cactor[a], "Error")>>
          \o ClientSessionActor_stopped_sends(cactor[a]))
    /\ cactor' = [cactor EXCEPT ![a] = ClientSessionActor_stopped(@)]
    /\ UNCHANGED <<sm_clients, sm_agents, sm_sessions, rt_clients, rt_agents,
                   rt_mailbox, aactor, agent_upgrade, proxyVars, clientVars, monVars, storeVars, compVars>>

\* The peer's stream ends (after a close handshake or a dropped socket): the
\* actor stops and stopped() runs.
ClientSessionActor_stream_finished(a) ==
    /\ ClientReady(a)
    /\ SMCanTake
    /\ sm_mailbox' = Send(sm_mailbox, ClientSessionActor_stopped_sends(cactor[a]))
    /\ cactor' = [cactor EXCEPT ![a] = ClientSessionActor_stopped(@)]
    /\ UNCHANGED <<sm_clients, sm_agents, sm_sessions, rt_clients, rt_agents,
                   rt_mailbox, aactor, agent_upgrade, proxyVars, clientVars, monVars, storeVars, compVars>>

\* Handler<SessionState>: for the actor's own client_id the saved buffer is
\* appended to message_buffer, session_data replaced, and a non-empty buffer
\* flushed at once.
ClientSessionActor_handle_SessionState(a) ==
    /\ ClientReady(a)
    /\ cactor[a].mailbox # <<>>
    /\ Head(cactor[a].mailbox).kind = "SessionState"
    /\ LET msg == Head(cactor[a].mailbox)
           taken == [cactor[a] EXCEPT !.mailbox = Tail(@)]
           restored == [taken EXCEPT !.message_buffer = @ \o msg.message_buffer,
                                     !.session_data = msg.session_data]
       IN  cactor' = [cactor EXCEPT ![a] =
              IF msg.id # cactor[a].client_id THEN taken
              ELSE IF restored.message_buffer # <<>>
                   THEN send_buffered_messages(restored)
                   ELSE restored]
    /\ UNCHANGED <<sm_clients, sm_agents, sm_sessions, sm_mailbox, rt_clients,
                   rt_agents, rt_mailbox, aactor, agent_upgrade, proxyVars, clientVars, monVars, storeVars, compVars>>

(***************************************************************************)
(* StateManagerActor: one action per Handler, taking the mailbox's head.   *)
(* self.router is Some (main.rs sends SetRouter before serving).           *)
(***************************************************************************)
SMHead(kind) == sm_mailbox # <<>> /\ Head(sm_mailbox).kind = kind

\* A registry record (ClientData / AgentData): the fields the model keeps.
Record(addr, state, attempts) ==
    [addr |-> addr, state |-> state, reconnect_attempts |-> attempts]

\* Handler<RegisterClient>: an existing record gets the new addr, Connected
\* and reconnect_attempts 0; otherwise a fresh record.  The Router is told
\* ClientConnected and RegisterClient.
StateManager_RegisterClient ==
    /\ SMHead("RegisterClient")
    /\ RouterCanTake
    /\ LET msg == Head(sm_mailbox)
       IN  /\ sm_clients' = [sm_clients EXCEPT ![msg.id] =
                  {Record(TheOne(msg.addr), "Connected", 0)}]
           /\ rt_mailbox' = Send(rt_mailbox,
                  <<RMsg("ClientConnected", msg.id),
                    [RMsg("RegisterClient", msg.id) EXCEPT !.addr = msg.addr]>>)
    /\ sm_mailbox' = Tail(sm_mailbox)
    /\ UNCHANGED <<sm_agents, sm_sessions, rt_clients, rt_agents, cactor, aactor, agent_upgrade, proxyVars, clientVars, monVars, storeVars, compVars>>

\* Handler<RegisterAgent>.
StateManager_RegisterAgent ==
    /\ SMHead("RegisterAgent")
    /\ RouterCanTake
    /\ LET msg == Head(sm_mailbox)
       IN  /\ sm_agents' = {Record(TheOne(msg.addr), "Connected", 0)}
           /\ rt_mailbox' = Send(rt_mailbox,
                  <<RMsg("AgentConnected", msg.id),
                    [RMsg("RegisterAgent", msg.id) EXCEPT !.addr = msg.addr]>>)
    /\ sm_mailbox' = Tail(sm_mailbox)
    /\ UNCHANGED <<sm_clients, sm_sessions, rt_clients, rt_agents, cactor, aactor, agent_upgrade, proxyVars, clientVars, monVars, storeVars, compVars>>

\* Handler<UnregisterClient>: if the client has a record, a minimal
\* SessionState (empty message_buffer, empty session_data) is inserted for
\* it and the record becomes Disconnected; the Router is told
\* ClientDisconnected and UnregisterClient in any case.
StateManager_UnregisterClient ==
    /\ SMHead("UnregisterClient")
    /\ RouterCanTake
    /\ LET msg == Head(sm_mailbox)
       IN  /\ IF sm_clients[msg.id] # {}
              THEN /\ sm_sessions' = [sm_sessions EXCEPT ![msg.id] =
                          {[message_buffer |-> <<>>, session_data |-> {}]}]
                   /\ sm_clients' = [sm_clients EXCEPT ![msg.id] =
                          {[TheOne(@) EXCEPT !.state = "Disconnected"]}]
              ELSE UNCHANGED <<sm_sessions, sm_clients>>
           /\ rt_mailbox' = Send(rt_mailbox,
                  <<RMsg("ClientDisconnected", msg.id), RMsg("UnregisterClient", msg.id)>>)
    /\ sm_mailbox' = Tail(sm_mailbox)
    /\ UNCHANGED <<sm_agents, rt_clients, rt_agents, cactor, aactor, agent_upgrade, proxyVars, clientVars, monVars, storeVars, compVars>>

\* Handler<UnregisterAgent>.
StateManager_UnregisterAgent ==
    /\ SMHead("UnregisterAgent")
    /\ RouterCanTake
    /\ LET msg == Head(sm_mailbox)
       IN  /\ sm_agents' = {[r EXCEPT !.state = "Disconnected"] : r \in sm_agents}
           /\ rt_mailbox' = Send(rt_mailbox,
                  <<RMsg("AgentDisconnected", msg.id), RMsg("UnregisterAgent", msg.id)>>)
    /\ sm_mailbox' = Tail(sm_mailbox)
    /\ UNCHANGED <<sm_clients, sm_sessions, rt_clients, rt_agents, cactor, aactor, agent_upgrade, proxyVars, clientVars, monVars, storeVars, compVars>>

\* Handler<UpdateClientState> / Handler<UpdateAgentState> on one record: the
\* state is set; a change into Reconnecting counts one more attempt.
\* reconnect_attempts is touched in no other way.
UpdateState(rec, state) ==
    [rec EXCEPT !.state = state,
                !.reconnect_attempts =
                    IF rec.state # state /\ state = "Reconnecting" THEN @ + 1 ELSE @]

StateManager_UpdateClientState ==
    /\ SMHead("UpdateClientState")
    /\ LET msg == Head(sm_mailbox)
       IN  sm_clients' = [sm_clients EXCEPT ![msg.id] =
              {UpdateState(r, msg.state) : r \in @}]
    /\ sm_mailbox' = Tail(sm_mailbox)
    /\ UNCHANGED <<sm_agents, sm_sessions, rt_clients, rt_agents, rt_mailbox,
                   cactor, aactor, agent_upgrade, proxyVars, clientVars, monVars, storeVars, compVars>>

StateManager_UpdateAgentState ==
    /\ SMHead("UpdateAgentState")
    /\ sm_agents' = {UpdateState(r, Head(sm_mailbox).state) : r \in sm_agents}
    /\ sm_mailbox' = Tail(sm_mailbox)
    /\ UNCHANGED <<sm_clients, sm_sessions, rt_clients, rt_agents, rt_mailbox,
                   cactor, aactor, agent_upgrade, proxyVars, clientVars, monVars, storeVars, compVars>>

\* Handler<ClientActivity> / Handler<AgentActivity> on one record: a
\* Disconnected or Reconnecting record becomes Connected with
\* reconnect_attempts 0.
Revives(rec) == rec.state \in {"Disconnected", "Reconnecting"}

Activity(rec) ==
    IF Revives(rec) THEN [rec EXCEPT !.state = "Connected", !.reconnect_attempts = 0]
    ELSE rec

StateManager_ClientActivity ==
    /\ SMHead("ClientActivity")
    /\ LET msg == Head(sm_mailbox)
           revived == \E r \in sm_clients[msg.id] : Revives(r)
       IN  /\ sm_clients' = [sm_clients EXCEPT ![msg.id] = {Activity(r) : r \in @}]
           /\ IF revived
              THEN /\ RouterCanTake
                   /\ rt_mailbox' = Send(rt_mailbox, <<RMsg("ClientConnected", msg.id)>>)
              ELSE UNCHANGED rt_mailbox
    /\ sm_mailbox' = Tail(sm_mailbox)
    /\ UNCHANGED <<sm_agents, sm_sessions, rt_clients, rt_agents, cactor, aactor, agent_upgrade, proxyVars, clientVars, monVars, storeVars, compVars>>

StateManager_AgentActivity ==
    /\ SMHead("AgentActivity")
    /\ LET msg == Head(sm_mailbox)
           revived == \E r \in sm_agents : Revives(r)
       IN  /\ sm_agents' = {Activity(r) : r \in sm_agents}
           /\ IF revived
              THEN /\ RouterCanTake
                   /\ rt_mailbox' = Send(rt_mailbox, <<RMsg("AgentConnected", msg.id)>>)
              ELSE UNCHANGED rt_mailbox
    /\ sm_mailbox' = Tail(sm_mailbox)
    /\ UNCHANGED <<sm_clients, sm_sessions, rt_clients, rt_agents, cactor, aactor, agent_upgrade, proxyVars, clientVars, monVars, storeVars, compVars>>

\* Handler<SaveSessionState>: sessions.insert(client_id, state).
StateManager_SaveSessionState ==
    /\ SMHead("SaveSessionState")
    /\ LET msg == Head(sm_mailbox)
       IN  sm_sessions' = [sm_sessions EXCEPT ![msg.id] =
              {[message_buffer |-> msg.message_buffer,
                session_data |-> msg.session_data]}]
    /\ sm_mailbox' = Tail(sm_mailbox)
    /\ UNCHANGED <<sm_clients, sm_agents, rt_clients, rt_agents, rt_mailbox,
                   cactor, aactor, agent_upgrade, proxyVars, clientVars, monVars, storeVars, compVars>>

\* Handler<GetSessionState> and the future restore_session waits on: the
\* reply is a clone of the stored SessionState, sessions is left as it is;
\* Some(session) is do_send to the asking actor, whose context resumes.
StateManager_GetSessionState ==
    /\ SMHead("GetSessionState")
    /\ LET msg == Head(sm_mailbox)
           a == TheOne(msg.addr)
           reply == sm_sessions[msg.id]
       IN  cactor' = [cactor EXCEPT ![a] =
              [@ EXCEPT !.waiting = FALSE,
                        !.mailbox = IF reply = {} THEN @
                                    ELSE Append(@,
                                       [kind |-> "SessionState", id |-> msg.id,
                                        message_buffer |-> TheOne(reply).message_buffer,
                                        session_data |-> TheOne(reply).session_data])]]
    /\ sm_mailbox' = Tail(sm_mailbox)
    /\ UNCHANGED <<sm_clients, sm_agents, sm_sessions, rt_clients, rt_agents,
                   rt_mailbox, aactor, agent_upgrade, proxyVars, clientVars, monVars, storeVars, compVars>>

(***************************************************************************)
(* RouterActor                                                             *)
(***************************************************************************)
RouterHead(kinds) == rt_mailbox # <<>> /\ Head(rt_mailbox).kind \in kinds

\* get_default_agent: the agent registered under default_agent_id "agent1".
get_default_agent == rt_agents

\* Addr::try_send to an agent actor: queued unless the actor has stopped or
\* its mailbox is full.
try_send_agent(actors, g, frame) ==
    IF actors[g].st = "stopped" \/ Len(actors[g].mailbox) >= AgentMailboxCap THEN actors
    ELSE [actors EXCEPT ![g].mailbox = Append(@, [kind |-> "AgentActorMessage", content |-> frame])]

\* Handler<SystemMessage>: ClientConnected and ClientDisconnected are
\* serialized and sent to the default agent, if there is one.
Router_SystemMessage_client ==
    /\ RouterHead({"ClientConnected", "ClientDisconnected"})
    /\ LET msg == Head(rt_mailbox)
       IN  aactor' = IF get_default_agent = {} THEN aactor
                     ELSE try_send_agent(aactor, TheOne(get_default_agent),
                                         Frame(msg.kind, msg.id, ""))
    /\ rt_mailbox' = Tail(rt_mailbox)
    /\ UNCHANGED <<sm_clients, sm_agents, sm_sessions, sm_mailbox, rt_clients,
                   rt_agents, cactor, agent_upgrade, proxyVars, clientVars, monVars, storeVars, compVars>>

\* Handler<SystemMessage>, any other variant: logged only.
Router_SystemMessage_other ==
    /\ RouterHead({"AgentConnected", "AgentDisconnected"})
    /\ rt_mailbox' = Tail(rt_mailbox)
    /\ UNCHANGED <<sm_clients, sm_agents, sm_sessions, sm_mailbox, rt_clients,
                   rt_agents, cactor, aactor, agent_upgrade, proxyVars, clientVars, monVars, storeVars, compVars>>

\* Handler<RegisterClient> / Handler<UnregisterClient>: insert / remove by id.
Router_RegisterClient ==
    /\ RouterHead({"RegisterClient"})
    /\ rt_clients' = [rt_clients EXCEPT ![Head(rt_mailbox).id] = Head(rt_mailbox).addr]
    /\ rt_mailbox' = Tail(rt_mailbox)
    /\ UNCHANGED <<sm_clients, sm_agents, sm_sessions, sm_mailbox, rt_agents,
                   cactor, aactor, agent_upgrade, proxyVars, clientVars, monVars, storeVars, compVars>>

Router_UnregisterClient ==
    /\ RouterHead({"UnregisterClient"})
    /\ rt_clients' = [rt_clients EXCEPT ![Head(rt_mailbox).id] = {}]
    /\ rt_mailbox' = Tail(rt_mailbox)
    /\ UNCHANGED <<sm_clients, sm_agents, sm_sessions, sm_mailbox, rt_agents,
                   cactor, aactor, agent_upgrade, proxyVars, clientVars, monVars, storeVars, compVars>>

\* Handler<RegisterAgent> / Handler<UnregisterAgent>.
Router_RegisterAgent ==
    /\ RouterHead({"RegisterAgent"})
    /\ rt_agents' = Head(rt_mailbox).addr
    /\ rt_mailbox' = Tail(rt_mailbox)
    /\ UNCHANGED <<sm_clients, sm_agents, sm_sessions, sm_mailbox, rt_clients,
                   cactor, aactor, agent_upgrade, proxyVars, clientVars, monVars, storeVars, compVars>>

Router_UnregisterAgent ==
    /\ RouterHead({"UnregisterAgent"})
    /\ rt_agents' = {}
    /\ rt_mailbox' = Tail(rt_mailbox)
    /\ UNCHANGED <<sm_clients, sm_agents, sm_sessions, sm_mailbox, rt_clients,
                   cactor, aactor, agent_upgrade, proxyVars, clientVars, monVars, storeVars, compVars>>

(***************************************************************************)
(* AgentActor                                                              *)
(***************************************************************************)
UpdateAgentState(state) == [SMsg("UpdateAgentState", "agent1") EXCEPT !.state = state]

AgentActivity(is_message) ==
    [SMsg("AgentActivity", "agent1") EXCEPT !.is_message = is_message]

\* Actor::stopped for AgentActor: what it sends to the StateManager.
AgentActor_stopped_sends ==
    <<UpdateAgentState("Disconnected"), SMsg("UnregisterAgent", "agent1")>>

AgentActor_stopped(act) ==
    [act EXCEPT !.st = "stopped", !.mailbox = <<>>, !.backoff_timers = 0]

\* Actor::started: reconnect_attempts = 0, heartbeat, UpdateAgentState Connected.
AgentActor_started(a) ==
    /\ aactor[a].st = "created"
    /\ SMCanTake
    /\ aactor' = [aactor EXCEPT ![a] = [@ EXCEPT !.st = "running", !.reconnect_attempts = 0]]
    /\ sm_mailbox' = Send(sm_mailbox, <<UpdateAgentState("Connected")>>)
    /\ UNCHANGED <<sm_clients, sm_agents, sm_sessions, rt_clients, rt_agents,
                   rt_mailbox, cactor, agent_upgrade, proxyVars, clientVars, monVars, storeVars, compVars>>

\* The heartbeat interval closure observing a timeout: UpdateAgentState
\* Reconnecting and a run_later(backoff) closure.  The actor is not stopped.
AgentActor_heartbeat_timeout(a) ==
    /\ Live(aactor[a])
    /\ aactor[a].backoff_timers < MaxBackoffTimers
    /\ SMCanTake
    /\ aactor' = [aactor EXCEPT ![a].backoff_timers = @ + 1]
    /\ sm_mailbox' = Send(sm_mailbox, <<UpdateAgentState("Reconnecting")>>)
    /\ UNCHANGED <<sm_clients, sm_agents, sm_sessions, rt_clients, rt_agents,
                   rt_mailbox, cactor, agent_upgrade, proxyVars, clientVars, monVars, storeVars, compVars>>

\* The run_later(backoff) closure: last_heartbeat reset, reconnect_attempts += 1.
AgentActor_backoff_elapsed(a) ==
    /\ Live(aactor[a])
    /\ aactor[a].backoff_timers > 0
    /\ aactor[a].reconnect_attempts < MaxAgentAttempts
    /\ aactor' = [aactor EXCEPT ![a] =
          [@ EXCEPT !.backoff_timers = @ - 1, !.reconnect_attempts = @ + 1]]
    /\ UNCHANGED <<sm_clients, sm_agents, sm_sessions, sm_mailbox, rt_clients,
                   rt_agents, rt_mailbox, cactor, agent_upgrade, proxyVars, clientVars, monVars, storeVars, compVars>>

\* StreamHandler, Ping and Pong: AgentActivity(false); with
\* reconnect_attempts > 0 the counter is reset and UpdateAgentState Connected
\* is sent.
AgentActor_handle_Pong(a) ==
    /\ Live(aactor[a])
    /\ SMCanTake
    /\ aactor' = [aactor EXCEPT ![a].reconnect_attempts = 0]
    /\ sm_mailbox' = Send(sm_mailbox,
          IF aactor[a].reconnect_attempts > 0
          THEN <<AgentActivity(FALSE), UpdateAgentState("Connected")>>
          ELSE <<AgentActivity(FALSE)>>)
    /\ UNCHANGED <<sm_clients, sm_agents, sm_sessions, rt_clients, rt_agents,
                   rt_mailbox, cactor, agent_upgrade, proxyVars, clientVars, monVars, storeVars, compVars>>

\* StreamHandler, Text: AgentActivity(true); a frame that parses as an
\* AgentMessage goes to the Router when `router` is set and is only logged
\* otherwise; a malformed frame is logged.  `target` is target_client_id.
AgentActor_handle_Text(a, wellFormed, target, content) ==
    /\ Live(aactor[a])
    /\ SMCanTake
    /\ sm_mailbox' = Send(sm_mailbox, <<AgentActivity(TRUE)>>)
    /\ rt_mailbox' =
          IF wellFormed /\ aactor[a].router # {}
          THEN Append(rt_mailbox, [kind |-> "AgentMessage", id |-> "agent1",
                                   addr |-> target, content |-> content])
          ELSE rt_mailbox
    /\ UNCHANGED <<sm_clients, sm_agents, sm_sessions, rt_clients, rt_agents,
                   cactor, aactor, agent_upgrade, proxyVars, clientVars, monVars, storeVars, compVars>>

\* StreamHandler, Binary: AgentActivity(true), a warning.
AgentActor_handle_Binary(a) ==
    /\ Live(aactor[a])
    /\ SMCanTake
    /\ sm_mailbox' = Send(sm_mailbox, <<AgentActivity(TRUE)>>)
    /\ UNCHANGED <<sm_clients, sm_agents, sm_sessions, rt_clients, rt_agents,
                   rt_mailbox, cactor, aactor, agent_upgrade, proxyVars, clientVars, monVars, storeVars, compVars>>

\* StreamHandler, Close: UpdateAgentState Disconnected, ctx.close.
AgentActor_handle_Close(a) ==
    /\ Live(aactor[a])
    /\ SMCanTake
    /\ sm_mailbox' = Send(sm_mailbox, <<UpdateAgentState("Disconnected")>>)
    /\ aactor' = [aactor EXCEPT ![a].st = "closing"]
    /\ UNCHANGED <<sm_clients, sm_agents, sm_sessions, rt_clients, rt_agents,
                   rt_mailbox, cactor, agent_upgrade, proxyVars, clientVars, monVars, storeVars, compVars>>

\* StreamHandler, Err: UpdateAgentState Error, ctx.stop; stopped() then runs.
AgentActor_handle_Err(a) ==
    /\ Live(aactor[a])
    /\ SMCanTake
    /\ sm_mailbox' = Send(sm_mailbox, <<UpdateAgentState("Error")>> \o AgentActor_stopped_sends)
    /\ aactor' = [aactor EXCEPT ![a] = AgentActor_stopped(@)]
    /\ UNCHANGED <<sm_clients, sm_agents, sm_sessions, rt_clients, rt_agents,
                   rt_mailbox, cactor, agent_upgrade, proxyVars, clientVars, monVars, storeVars, compVars>>

\* The agent's stream ends: the actor stops and stopped() runs.
AgentActor_stream_finished(a) ==
    /\ Live(aactor[a])
    /\ SMCanTake
    /\ sm_mailbox' = Send(sm_mailbox, AgentActor_stopped_sends)
    /\ aactor' = [aactor EXCEPT ![a] = AgentActor_stopped(@)]
    /\ UNCHANGED <<sm_clients, sm_agents, sm_sessions, rt_clients, rt_agents,
                   rt_mailbox, cactor, agent_upgrade, proxyVars, clientVars, monVars, storeVars, compVars>>

\* Handler<AgentActorMessage>: ctx.text(msg.content).
AgentActor_handle_AgentActorMessage(a) ==
    /\ Live(aactor[a])
    /\ aactor[a].mailbox # <<>>
    /\ aactor' = [aactor EXCEPT ![a] =
          [@ EXCEPT !.mailbox = Tail(@), !.sock = @ \cup {Head(aactor[a].mailbox).content}]]
    /\ UNCHANGED <<sm_clients, sm_agents, sm_sessions, sm_mailbox, rt_clients,
                   rt_agents, rt_mailbox, cactor, agent_upgrade, proxyVars, clientVars, monVars, storeVars, compVars>>

\* The StateManager's and the Router's handlers for client traffic, and
\* those for agent traffic.
ClientRegistry ==
    \/ StateManager_RegisterClient
    \/ StateManager_UnregisterClient
    \/ StateManager_UpdateClientState
    \/ StateManager_ClientActivity
    \/ StateManager_SaveSessionState
    \/ StateManager_GetSessionState
    \/ Router_SystemMessage_client
    \/ Router_RegisterClient
    \/ Router_UnregisterClient

AgentRegistry ==
    \/ StateManager_RegisterAgent
    \/ StateManager_UnregisterAgent
    \/ StateManager_UpdateAgentState
    \/ StateManager_AgentActivity
    \/ Router_SystemMessage_other
    \/ Router_RegisterAgent
    \/ Router_UnregisterAgent

\* A client connection's life: upgrade, start, restore, frames, heartbeat
\* timeouts, stop.
ClientConnections ==
    \/ \E a \in CActorIds, cid \in HubClients : client_ws_route(a, cid)
    \/ \E a \in CActorIds : ClientSessionActor_started(a)
    \/ \E a \in CActorIds : ClientSessionActor_heartbeat_timeout(a)
    \/ \E a \in CActorIds : ClientSessionActor_handle_Pong(a)
    \/ \E a \in CActorIds, text \in ClientTexts : ClientSessionActor_handle_Text(a, text)
    \/ \E a \in CActorIds : ClientSessionActor_handle_Binary(a)
    \/ \E a \in CActorIds : ClientSessionActor_handle_Close(a)
    \/ \E a \in CActorIds : ClientSessionActor_handle_Err(a)
    \/ \E a \in CActorIds : ClientSessionActor_stream_finished(a)
    \/ \E a \in CActorIds : ClientSessionActor_handle_SessionState(a)

\* The outbound buffer of a client connection in play.
ClientBuffering ==
    \/ \E a \in CActorIds : ClientSessionActor_buffer_message(a)
    \/ \E a \in CActorIds : ClientSessionActor_flush_timer(a)

\* An agent connection that connects, talks and goes away.
AgentTraffic(ids) ==
    \/ \E a \in ids : agent_ws_route(a, {agent_token})
    \/ \E a \in ids : AgentActor_started(a)
    \/ \E a \in ids, wellFormed \in BOOLEAN, content \in ClientTexts :
          \E target \in {{}} \cup {{c} : c \in HubClients} :
             AgentActor_handle_Text(a, wellFormed, target, content)
    \/ \E a \in ids : AgentActor_stream_finished(a)

\* An agent connection's heartbeat timeouts, reconnect attempts and the
\* other frames.
AgentLiveness ==
    \/ \E a \in AActorIds : AgentActor_heartbeat_timeout(a)
    \/ \E a \in AActorIds : AgentActor_backoff_elapsed(a)
    \/ \E a \in AActorIds : AgentActor_handle_Pong(a)
    \/ \E a \in AActorIds : AgentActor_handle_Binary(a)
    \/ \E a \in AActorIds : AgentActor_handle_Close(a)
    \/ \E a \in AActorIds : AgentActor_handle_Err(a)

\* The Hub with client connections racing each other and one agent
\* connection to talk to.
NextHub ==
    \/ ClientConnections
    \/ ClientRegistry
    \/ AgentTraffic(HubAgentIds)
    \/ \E a \in HubAgentIds : AgentActor_handle_AgentActorMessage(a)
    \/ AgentRegistry

\* The Hub's client side with the outbound buffers in play (no agent).
NextSession ==
    \/ ClientConnections
    \/ ClientBuffering
    \/ ClientRegistry

\* The Hub's agent endpoint open to any upgrade request: connections come
\* and go and the registries follow them (no text frames, no heartbeat
\* timeouts).
NextAgentGate ==
    \/ \E a \in AActorIds, header \in Headers : agent_ws_route(a, header)
    \/ \E a \in AActorIds : AgentActor_started(a)
    \/ \E a \in AActorIds : AgentActor_stream_finished(a)
    \/ \E a \in AActorIds : AgentActor_handle_Pong(a)
    \/ \E a \in AActorIds : AgentActor_handle_Binary(a)
    \/ \E a \in AActorIds : AgentActor_handle_Close(a)
    \/ \E a \in AActorIds : AgentActor_handle_Err(a)
    \/ AgentRegistry

\* The Hub's agent side with agent connections racing each other (no client).
NextAgents ==
    \/ AgentTraffic(AActorIds)
    \/ AgentLiveness
    \/ AgentRegistry

(***************************************************************************)
(* The ClientSessionActor as a component: its mailbox, its socket, the     *)
(* MessageTracker, the buffer and the timers.  The StateManager and the    *)
(* Router are its environment: `stored` is the SessionState the            *)
(* StateManager holds for the actor's client id, to_state_manager collects *)
(* what the actor has sent to the StateManager, and the Router delivers    *)
(* ClientActorMessages to the actor's address.  The fields fresh, pongs    *)
(* and acks of csa count the environment's inputs so far.                  *)
(***************************************************************************)
ack_timeout == 30
heartbeat_interval == 5
heartbeat_timeout == 30
max_buffer_size == 100

TextFrame(p) == [t |-> "text", p |-> p]
PingFrame == [t |-> "ping", p |-> NoPayload]
ErrorFrame == TextFrame(Payload("error", 0, {}))

SMOut(k, state, buf) == [kind |-> k, state |-> state, message_buffer |-> buf]
Metrics == SMOut("UpdateClientMessageMetrics", "", <<>>)

\* MessageTracker
next_id(act) == act.last_sent_id + 1

add_pending(pending, msg_id, content, t) ==
    {e \in pending : e.id # msg_id}
        \cup {[id |-> msg_id, content |-> content, sent_time |-> t]}

confirm_delivery(pending, msg_id) == {e \in pending : e.id # msg_id}

check_expired(pending, t) == {e \in pending : t - e.sent_time > ack_timeout}

\* The orders in which a HashMap may hand out the entries S.
Orders(S) ==
    {q \in [1..Cardinality(S) -> S] : \A i, j \in DOMAIN q : i # j => q[i] # q[j]}

\* check_and_resend_pending_messages(&self): the frames written for the
\* expired entries taken in the order q; the tracker is left as it is.
check_and_resend_pending_messages(q) == [i \in DOMAIN q |-> TextFrame(q[i].content)]

process_ack(act, msg_id) ==
    [act EXCEPT !.pending_acks = confirm_delivery(@, msg_id)]

Session_save(act) == SMOut("SaveSessionState", "", act.message_buffer)

\* ClientSessionActor::buffer_message on the component.
Session_buffer_message(act, content, t) ==
    IF Len(act.message_buffer) >= max_buffer_size
    THEN act
    ELSE [act EXCEPT !.last_sent_id = next_id(act),
                     !.pending_acks = add_pending(@, next_id(act), content, t),
                     !.message_buffer = Append(@, content),
                     !.to_state_manager = @ \cup {Metrics}]

\* send_buffered_messages that reads the batch and leaves it in the buffer.
Session_send_buffered_messages_without_pop(act) ==
    IF act.message_buffer = <<>>
    THEN act
    ELSE LET n == Min(flush_batch, Len(act.message_buffer))
         IN [act EXCEPT
                !.sock = @ \o [i \in 1..n |-> TextFrame(act.message_buffer[i])],
                !.to_state_manager = @ \cup {Metrics},
                !.flush_timers = IF Len(act.message_buffer) > n THEN @ + 1 ELSE @]

\* ClientSessionActor::send_buffered_messages on the component.
Session_send_buffered_messages(act) ==
    IF act.message_buffer = <<>>
    THEN act
    ELSE LET n == Min(flush_batch, Len(act.message_buffer))
         IN [act EXCEPT
                !.sock = @ \o [i \in 1..n |-> TextFrame(act.message_buffer[i])],
                !.message_buffer = SubSeq(@, n + 1, Len(@)),
                !.to_state_manager = @ \cup {Metrics},
                !.flush_timers = IF Len(act.message_buffer) > n THEN @ + 1 ELSE @]

\* Actor::stopped on the component.
Session_stopped(act) ==
    [act EXCEPT !.st = "stopped", !.is_connected = FALSE,
                !.to_state_manager = @ \cup
                    {Session_save(act),
                     SMOut("UpdateClientState", "Disconnected", <<>>),
                     SMOut("UnregisterClient", "", <<>>)}]

SessionReady == csa.st = "running" /\ ~csa.waiting

\* Actor::started: heartbeat(), restore_session() (which makes the actor
\* wait for the StateManager's reply), UpdateClientState{Connected}.
Session_started ==
    /\ csa.st = "created"
    /\ csa' = [csa EXCEPT
                !.st = "running", !.last_heartbeat = now,
                !.reconnect_attempts = 0, !.is_connected = TRUE,
                !.waiting = TRUE,
                !.to_state_manager = @ \cup
                    {SMOut("GetSessionState", "", <<>>),
                     SMOut("UpdateClientState", "Connected", <<>>)},
                !.flush_timers = IF csa.message_buffer # <<>> THEN @ + 1 ELSE @]
    /\ UNCHANGED <<now, stored, proxyVars, hubVars, monVars, storeVars, compVars>>

\* The future of restore_session completes: Ok(Some(session)) is sent to
\* the actor's own address, Ok(None) is only logged.
Session_restore_reply ==
    /\ csa.st = "running" /\ csa.waiting
    /\ csa' = [csa EXCEPT
                !.waiting = FALSE,
                !.mailbox = IF stored = {} THEN @
                            ELSE Append(@, [kind |-> "SessionState",
                                            content |-> NoPayload,
                                            message_buffer |-> TheOne(stored)])]
    /\ UNCHANGED <<now, stored, proxyVars, hubVars, monVars, storeVars, compVars>>

\* Handler<AgentMessage> for RouterActor, unicast: try_send of the
\* serialised AgentMessage to the client's address.  mid is the
\* AgentMessage's message_id.
Router_AgentMessage(mid) ==
    /\ csa.st \in {"created", "running"}
    /\ csa.fresh < MaxFresh
    /\ now <= LastDelivery
    /\ csa' = [csa EXCEPT
                !.fresh = @ + 1,
                !.mailbox = Append(@, [kind |-> "ClientActorMessage",
                                       content |-> Payload("fresh", csa.fresh + 1, mid),
                                       message_buffer |-> <<>>])]
    /\ UNCHANGED <<now, stored, proxyVars, hubVars, monVars, storeVars, compVars>>

SessionHead(kind) == csa.mailbox # <<>> /\ Head(csa.mailbox).kind = kind

\* Handler<ClientActorMessage> for ClientSessionActor.  The Router's content
\* is a JSON object, so the tracked branch is the one taken.
Session_handle_ClientActorMessage ==
    /\ SessionReady /\ SessionHead("ClientActorMessage")
    /\ LET content == Head(csa.mailbox).content
           act == [csa EXCEPT !.mailbox = Tail(@),
                              !.to_state_manager = @ \cup {Metrics}]
           msg_id == next_id(act)
           content_with_id ==
               IF content.message_id # {} THEN content
               ELSE [content EXCEPT !.message_id = {msg_id}]
       IN csa' = IF ~act.is_connected
                 THEN Session_buffer_message(act, content, now)
                 ELSE [act EXCEPT
                         !.last_sent_id = msg_id,
                         !.pending_acks = add_pending(@, msg_id, content_with_id, now),
                         !.sock = Append(@, TextFrame(content_with_id))]
    /\ UNCHANGED <<now, stored, proxyVars, hubVars, monVars, storeVars, compVars>>

\* Handler<SessionState> for ClientSessionActor.
Session_handle_SessionState ==
    /\ SessionReady /\ SessionHead("SessionState")
    /\ LET act == [csa EXCEPT
                     !.mailbox = Tail(@),
                     !.message_buffer = @ \o Head(csa.mailbox).message_buffer]
       IN csa' = IF act.message_buffer # <<>>
                 THEN Session_send_buffered_messages(act)
                 ELSE act
    /\ UNCHANGED <<now, stored, proxyVars, hubVars, monVars, storeVars, compVars>>

\* The run_later(100 ms) callback scheduled by send_buffered_messages.
Session_flush_timer ==
    /\ SessionReady /\ csa.flush_timers > 0
    /\ csa' = Session_send_buffered_messages([csa EXCEPT !.flush_timers = @ - 1])
    /\ UNCHANGED <<now, stored, proxyVars, hubVars, monVars, storeVars, compVars>>

\* One heartbeat_interval passes and the run_interval callback of
\* heartbeat() runs.  The actor empties its mailbox and its 100 ms timer
\* fires within the interval.
Session_heartbeat ==
    /\ SessionReady
    /\ csa.mailbox = <<>> /\ csa.flush_timers = 0
    /\ now + heartbeat_interval <= MaxTime
    /\ now' = now + heartbeat_interval
    /\ \E q \in Orders(check_expired(csa.pending_acks, now')) :
         LET resent == check_and_resend_pending_messages(q)
             act == [csa EXCEPT
                       !.sock = @ \o resent,
                       !.to_state_manager =
                           @ \cup (IF resent = <<>> THEN {} ELSE {Metrics})]
         IN IF now' - csa.last_heartbeat > heartbeat_timeout
            THEN LET timed == [act EXCEPT
                                 !.reconnect_attempts = @ + 1,
                                 !.to_state_manager = @ \cup
                                     {Session_save(csa),
                                      SMOut("UpdateClientState", "Reconnecting", <<>>)}]
                 IN IF timed.reconnect_attempts > client_max_reconnect_attempts
                    THEN csa' = Session_stopped(
                                  [timed EXCEPT !.to_state_manager = @ \cup
                                     {SMOut("UpdateClientState", "Disconnected", <<>>),
                                      SMOut("UnregisterClient", "", <<>>)}])
                    ELSE csa' = [timed EXCEPT !.sock = Append(@, PingFrame)]
            ELSE csa' = [act EXCEPT !.sock = Append(@, PingFrame)]
    /\ UNCHANGED <<stored, proxyVars, hubVars, monVars, storeVars, compVars>>

\* StreamHandler, Ok(Pong).
Session_handle_Pong ==
    /\ SessionReady
    /\ csa.pongs < MaxPongs
    /\ csa' = [csa EXCEPT
                !.pongs = @ + 1,
                !.last_heartbeat = now,
                !.reconnect_attempts = 0,
                !.to_state_manager = @ \cup {SMOut("ClientActivity", "", <<>>)}]
    /\ UNCHANGED <<now, stored, proxyVars, hubVars, monVars, storeVars, compVars>>

\* The message ids the client has seen in the frames of its socket.
SeenIds ==
    UNION {csa.sock[i].p.message_id : i \in DOMAIN csa.sock}

\* StreamHandler, Ok(Text(text)) and handle_client_message, for a text that
\* carries "message_id":msg_id; isAck says that it also holds "type":"ack".
\* Any other text with a message id goes on to the router, which the actor
\* does not have.
Session_handle_Text(msg_id, isAck) ==
    /\ SessionReady
    /\ csa.acks < MaxAcks
    /\ msg_id \in SeenIds
    /\ LET act == process_ack(
                    [csa EXCEPT
                       !.acks = @ + 1,
                       !.last_heartbeat = now,
                       !.to_state_manager = @ \cup
                           {SMOut("ClientActivity", "", <<>>), Metrics}],
                    msg_id)
       IN csa' = IF isAck \/ act.router # {}
                 THEN act
                 ELSE [act EXCEPT !.sock = Append(@, ErrorFrame)]
    /\ UNCHANGED <<now, stored, proxyVars, hubVars, monVars, storeVars, compVars>>

\* The socket's stream ends: the context stops and Actor::stopped runs.
Session_stream_finished ==
    /\ SessionReady
    /\ csa' = Session_stopped(csa)
    /\ UNCHANGED <<now, stored, proxyVars, hubVars, monVars, storeVars, compVars>>

NextClient ==
    \/ Session_started
    \/ Session_restore_reply
    \/ \E mid \in {{}, {42}} : Router_AgentMessage(mid)
    \/ Session_handle_ClientActorMessage
    \/ Session_handle_SessionState
    \/ Session_flush_timer
    \/ Session_heartbeat
    \/ Session_handle_Pong
    \/ \E msg_id \in SeenIds, isAck \in BOOLEAN : Session_handle_Text(msg_id, isAck)
    \/ Session_stream_finished

\* The component starts as constructed, with any snapshot the StateManager
\* may hold for its client id.
InitClient ==
    /\ InitProxy /\ InitHubVars /\ InitMonitor /\ InitStore /\ InitComp
    /\ csa = SessionActor_new
    /\ now = 0
    /\ stored \in {{}} \cup {{SavedBuffer(k)} : k \in 0..MaxSnapshot}

\* ---- The ClientSessionActor's buffer and tracker at capacity -------------
\* The same component with an environment that offers it payloads up to and
\* past max_buffer_size: its owner calls buffer_message before the actor is
\* started, and the Router try_sends ClientActorMessages to its address.
MaxBacklog == 101     \* payloads offered (one more than max_buffer_size)

\* pub fn buffer_message, called on an actor that is not yet started.
Session_call_buffer_message ==
    /\ csa.st = "created"
    /\ csa.fresh < MaxBacklog
    /\ csa' = Session_buffer_message(
                  [csa EXCEPT !.fresh = @ + 1],
                  Payload("fresh", csa.fresh + 1, {}), now)
    /\ UNCHANGED <<now, stored, proxyVars, hubVars, monVars, storeVars, compVars>>

\* Handler<AgentMessage> for RouterActor, unicast: try_send of the
\* serialised AgentMessage (without a message_id) to the actor's address.
\* The payloads arrive one at a time, each once the actor has handled what
\* it had to do.
Backlog_Router_AgentMessage ==
    /\ SessionReady
    /\ csa.mailbox = <<>> /\ csa.flush_timers = 0
    /\ csa.fresh < MaxBacklog
    /\ csa' = [csa EXCEPT
                !.fresh = @ + 1,
                !.mailbox = Append(@, [kind |-> "ClientActorMessage",
                                       content |-> Payload("fresh", csa.fresh + 1, {}),
                                       message_buffer |-> <<>>])]
    /\ UNCHANGED <<now, stored, proxyVars, hubVars, monVars, storeVars, compVars>>

NextBacklog ==
    \/ Session_call_buffer_message
    \/ Session_started
    \/ Session_restore_reply
    \/ Backlog_Router_AgentMessage
    \/ Session_handle_ClientActorMessage
    \/ Session_handle_SessionState
    \/ Session_flush_timer

\* The actor as constructed; the StateManager holds no snapshot for its
\* client id, or one that is one entry longer than a flush batch.
InitBacklog ==
    /\ InitProxy /\ InitHubVars /\ InitMonitor /\ InitStore /\ InitComp
    /\ csa = SessionActor_new
    /\ now = 0
    /\ stored \in {{}, {SavedBuffer(MaxSnapshot)}}

(***************************************************************************)
(* The StateManager's agent registry and one agent connection, in time.    *)
(* The agent's peer is silent: it sends no frame, and it may close its      *)
(* stream early.  The Router, which the StateManager notifies, is the      *)
(* environment.                                                            *)
(***************************************************************************)
agent_heartbeat_interval == 5
agent_heartbeat_timeout == 30
agent_max_backoff == 60
agent_timeout == 120
sm_max_reconnect_attempts == 10
cleanup_interval == 30

MonMsg(k, state) == [kind |-> k, state |-> state]

\* An AgentData record; `since` is history, the instant at which the
\* record last entered or left Connected.
AgentData(state, attempts, seen) ==
    [state |-> state, reconnect_attempts |-> attempts, last_seen |-> seen,
     since |-> seen]

\* The StateManager runs its next handler: it is not blocked and the
\* message is at the head of its mailbox.
MonHead(kind) ==
    ~mon_blocked /\ mon_mailbox # <<>> /\ Head(mon_mailbox).kind = kind

\* Handler<RegisterAgent> for StateManagerActor.
TimedSM_RegisterAgent ==
    /\ MonHead("RegisterAgent")
    /\ mon_agents' = {AgentData("Connected", 0, mon_now)}
    /\ mon_mailbox' = Tail(mon_mailbox)
    /\ UNCHANGED <<mon_agent, mon_blocked, mon_swept, mon_now, proxyVars, hubVars, clientVars, storeVars, compVars>>

\* Handler<UpdateAgentState> for StateManagerActor (last_seen_update is
\* true in every message the agent actor sends).
TimedSM_UpdateAgentState ==
    /\ MonHead("UpdateAgentState")
    /\ LET state == Head(mon_mailbox).state
       IN mon_agents' =
            {[r EXCEPT !.state = state,
                       !.last_seen = mon_now,
                       !.since = IF (r.state = "Connected") = (state = "Connected")
                                 THEN @ ELSE mon_now,
                       !.reconnect_attempts =
                           IF r.state # state /\ state = "Reconnecting"
                           THEN @ + 1 ELSE @] : r \in mon_agents}
    /\ mon_mailbox' = Tail(mon_mailbox)
    /\ UNCHANGED <<mon_agent, mon_blocked, mon_swept, mon_now, proxyVars, hubVars, clientVars, storeVars, compVars>>

\* Handler<UnregisterAgent> for StateManagerActor: the record stays in the
\* map, Disconnected (the Router it notifies is the environment).
TimedSM_UnregisterAgent ==
    /\ MonHead("UnregisterAgent")
    /\ mon_agents' =
            {[r EXCEPT !.state = "Disconnected",
                       !.last_seen = mon_now,
                       !.since = IF r.state = "Connected" THEN mon_now ELSE @]
             : r \in mon_agents}
    /\ mon_mailbox' = Tail(mon_mailbox)
    /\ UNCHANGED <<mon_agent, mon_blocked, mon_swept, mon_now, proxyVars, hubVars, clientVars, storeVars, compVars>>

\* monitor_connections finds something to change in the record r.
SweepTouches(r) ==
    CASE r.state = "Connected" -> mon_now - r.last_seen > agent_timeout
      [] r.state = "Reconnecting" ->
            r.reconnect_attempts >= sm_max_reconnect_attempts
      [] r.state \in {"Disconnected", "Error"} ->
            mon_now - r.last_seen > 3 * agent_timeout
      [] OTHER -> FALSE

\* The run_interval(cleanup_interval) callback: monitor_connections, the
\* agents' loop.  Each branch that changes the map calls get_mut or remove
\* on it while the loop's iterator still holds the entry's shard, and waits
\* for that lock.
TimedSM_monitor_connections ==
    /\ ~mon_blocked
    /\ mon_now = mon_swept + cleanup_interval
    /\ mon_swept' = mon_now
    /\ mon_blocked' = \E r \in mon_agents : SweepTouches(r)
    /\ UNCHANGED <<mon_agent, mon_agents, mon_mailbox, mon_now,
                   proxyVars, hubVars, clientVars, storeVars, compVars>>

\* Actor::started for AgentActor.
TimedAgent_started ==
    /\ mon_agent.st = "created"
    /\ mon_agent' = [mon_agent EXCEPT
                       !.st = "running", !.last_heartbeat = mon_now,
                       !.reconnect_attempts = 0, !.last_tick = mon_now]
    /\ mon_mailbox' = Append(mon_mailbox, MonMsg("UpdateAgentState", "Connected"))
    /\ UNCHANGED <<mon_agents, mon_blocked, mon_swept, mon_now, proxyVars, hubVars, clientVars, storeVars, compVars>>

\* The run_interval callback of AgentActor::heartbeat, when it is due.
TimedAgent_heartbeat ==
    /\ mon_agent.st = "running"
    /\ mon_now = mon_agent.last_tick + agent_heartbeat_interval
    /\ IF mon_now - mon_agent.last_heartbeat > agent_heartbeat_timeout
       THEN LET backoff_seconds ==
                    Min(2 ^ mon_agent.reconnect_attempts, agent_max_backoff)
            IN /\ mon_agent' = [mon_agent EXCEPT
                                  !.last_tick = mon_now,
                                  !.timers = @ \cup {mon_now + backoff_seconds}]
               /\ mon_mailbox' = Append(mon_mailbox,
                                        MonMsg("UpdateAgentState", "Reconnecting"))
       ELSE /\ mon_agent' = [mon_agent EXCEPT !.last_tick = mon_now, !.pings = @ + 1]
            /\ UNCHANGED mon_mailbox
    /\ UNCHANGED <<mon_agents, mon_blocked, mon_swept, mon_now, proxyVars, hubVars, clientVars, storeVars, compVars>>

\* The run_later(backoff) callback of AgentActor::heartbeat, when it is due.
TimedAgent_backoff_elapsed ==
    /\ mon_agent.st = "running"
    /\ mon_now \in mon_agent.timers
    /\ mon_agent' = [mon_agent EXCEPT
                       !.timers = @ \ {mon_now},
                       !.last_heartbeat = mon_now,
                       !.reconnect_attempts = @ + 1,
                       !.pings = @ + 1]
    /\ UNCHANGED <<mon_agents, mon_mailbox, mon_blocked, mon_swept, mon_now,
                   proxyVars, hubVars, clientVars, storeVars, compVars>>

\* The agent's stream ends (StreamHandler::finished stops the context) and
\* Actor::stopped for AgentActor runs; the actor's timers die with it.
TimedAgent_stopped ==
    /\ mon_agent.st = "running"
    /\ mon_now <= LastClose
    /\ mon_agent' = [mon_agent EXCEPT !.st = "stopped", !.timers = {}]
    /\ mon_mailbox' = mon_mailbox \o <<MonMsg("UpdateAgentState", "Disconnected"),
                                       MonMsg("UnregisterAgent", "")>>
    /\ UNCHANGED <<mon_agents, mon_blocked, mon_swept, mon_now, proxyVars, hubVars, clientVars, storeVars, compVars>>

\* A second passes: nothing is due and the StateManager has emptied its
\* mailbox (or is blocked).
Timed_second ==
    /\ mon_now < MaxClock
    /\ mon_agent.st \in {"running", "stopped"}
    /\ mon_agent.st = "running" =>
          /\ mon_now < mon_agent.last_tick + agent_heartbeat_interval
          /\ mon_now \notin mon_agent.timers
    /\ mon_mailbox = <<>> \/ mon_blocked
    /\ mon_blocked \/ mon_now < mon_swept + cleanup_interval
    /\ mon_now' = mon_now + 1
    /\ UNCHANGED <<mon_agent, mon_agents, mon_mailbox, mon_blocked, mon_swept,
                   proxyVars, hubVars, clientVars, storeVars, compVars>>

\* The agent connects while the StateManager's monitoring interval is
\* anywhere in its period.
InitGiveUp ==
    /\ InitProxy /\ InitHubVars /\ InitSessionIdle /\ InitStore /\ InitComp
    /\ mon_agent = TimedAgent_new
    /\ mon_agents = {}
    /\ mon_mailbox = <<MonMsg("RegisterAgent", "")>>
    /\ mon_blocked = FALSE
    /\ mon_swept \in {0 - k : k \in 0..(cleanup_interval - 1)}
    /\ mon_now = 0

NextGiveUp ==
    \/ TimedSM_RegisterAgent
    \/ TimedSM_UpdateAgentState
    \/ TimedSM_UnregisterAgent
    \/ TimedSM_monitor_connections
    \/ TimedAgent_started
    \/ TimedAgent_heartbeat
    \/ TimedAgent_backoff_elapsed
    \/ TimedAgent_stopped
    \/ Timed_second

(***************************************************************************)
(* The Session Store (web-server/src/client_registry.rs) and the HTTP API  *)
(* in front of it (web-server/src/api).  The registry is one actor: it     *)
(* handles one message at a time.  An HTTP handler is a task that sends    *)
(* messages to the registry and waits for each answer; other messages may  *)
(* reach the registry between two messages of one handler.  The registry   *)
(* is never stopped and its mailbox is unbounded, so no send fails.        *)
(* No caller sets session metadata: the field is left out.                 *)
(***************************************************************************)
session_ttl == 86400          \* ClientRegistryActor::with_ttl(86400, ...)
jwt_lifetime == 86400         \* generate_jwt_token: exp = now + 86400

Wallets == 1..MaxWallets

\* The tokens a request may present: 0 is a value that was never issued.
PresentedTokens == 0..registry.minted

\* ClientSession::new_anonymous
new_anonymous(client_id, session_token) ==
    [client_id |-> client_id, session_token |-> session_token,
     created_at |-> store_now, last_active |-> store_now,
     is_authenticated |-> FALSE, wallet_address |-> {}]

\* ClientSession::update_activity
update_activity(session) == [session EXCEPT !.last_active = store_now]

\* ClientSession::is_expired
is_expired(session, ttl_seconds) == store_now - session.last_active > ttl_seconds

\* A log event: its level, its text, and the session token formatted into it.
Line(level, text, token) == [level |-> level, text |-> text, token |-> token]

LevelRank(level) ==
    CASE level = "ERROR" -> 1
      [] level = "WARN" -> 2
      [] level = "INFO" -> 3
      [] level = "DEBUG" -> 4
      [] OTHER -> 5

\* A subscriber that also writes the DEBUG events.
max_level_debug == "DEBUG"

\* setup_tracing: FmtSubscriber with_max_level(Level::INFO).
max_level == "INFO"

\* The lines the subscriber writes out of the events a handler emits.
Written(events) == {e \in events : LevelRank(e.level) <= LevelRank(max_level)}

\* DashMap get / insert / remove on sessions (by token) and client_lookup
\* (by client id, a set of <<client_id, token>> pairs).
sessions_get(reg, token) == {s \in reg.sessions : s.session_token = token}
sessions_put(reg, session) ==
    {s \in reg.sessions : s.session_token # session.session_token} \cup {session}
lookup_get(reg, client_id) == {p[2] : p \in {q \in reg.client_lookup : q[1] = client_id}}

\* What a handler leaves behind: the registry, its answer, the session it
\* returns (if any) and the log events it emitted.
Out(reg, result, session, events) ==
    [registry |-> reg, result |-> result, session |-> session, events |-> events]

\* ClientRegistryActor::update_metrics: recount the sessions.
update_metrics(reg) ==
    [reg EXCEPT !.metrics =
        [total_sessions |-> Cardinality(reg.sessions),
         anonymous_sessions |-> Cardinality({s \in reg.sessions : ~s.is_authenticated}),
         authenticated_sessions |-> Cardinality({s \in reg.sessions : s.is_authenticated}),
         expired_count |-> reg.metrics.expired_count]]

\* Handler<RegisterAnonymousClient> without the insert into client_lookup.
handle_RegisterAnonymousClient_without_lookup(reg) ==
    LET id == reg.minted + 1
        session == new_anonymous(id, id)
    IN  Out([reg EXCEPT !.sessions = sessions_put(reg, session),
                        !.metrics.anonymous_sessions = @ + 1,
                        !.metrics.total_sessions = @ + 1,
                        !.minted = id],
            "Registered", {session},
            {Line("INFO", "Registered new anonymous client", {})})

\* Handler<RegisterAnonymousClient>
handle_RegisterAnonymousClient(reg) ==
    LET id == reg.minted + 1
        session == new_anonymous(id, id)
    IN  Out([reg EXCEPT !.sessions = sessions_put(reg, session),
                        !.client_lookup = {p \in @ : p[1] # id} \cup {<<id, id>>},
                        !.metrics.anonymous_sessions = @ + 1,
                        !.metrics.total_sessions = @ + 1,
                        !.minted = id],
            "Registered", {session},
            {Line("INFO", "Registered new anonymous client", {})})

\* Handler<GetClientSession>
handle_GetClientSession(reg, session_token) ==
    IF sessions_get(reg, session_token) # {}
    THEN LET session == TheOne(sessions_get(reg, session_token))
         IN  IF is_expired(session, session_ttl)
             THEN Out(reg, "Expired", {}, {Line("DEBUG", "Session expired", {})})
             ELSE Out([reg EXCEPT !.sessions = sessions_put(reg, update_activity(session))],
                      "Success", {update_activity(session)},
                      {Line("DEBUG", "Retrieved session for client", {})})
    ELSE Out(reg, "NotFound", {},
             {Line("DEBUG", "Session not found for token", {session_token})})

\* Handler<GetClientSessionById>
handle_GetClientSessionById(reg, client_id) ==
    IF lookup_get(reg, client_id) # {}
    THEN LET token == TheOne(lookup_get(reg, client_id))
         IN  IF sessions_get(reg, token) # {}
             THEN LET session == TheOne(sessions_get(reg, token))
                  IN  IF is_expired(session, session_ttl)
                      THEN Out(reg, "Expired", {}, {Line("DEBUG", "Session expired", {})})
                      ELSE Out([reg EXCEPT !.sessions = sessions_put(reg, update_activity(session))],
                               "Success", {update_activity(session)},
                               {Line("DEBUG", "Retrieved session for client", {})})
             ELSE Out(reg, "NotFound", {}, {})
    ELSE Out(reg, "NotFound", {}, {Line("DEBUG", "Session not found for client ID", {})})

\* Handler<UpdateSessionActivity>: no expiry check.
handle_UpdateSessionActivity(reg, session_token) ==
    IF sessions_get(reg, session_token) # {}
    THEN Out([reg EXCEPT !.sessions =
                 sessions_put(reg, update_activity(TheOne(sessions_get(reg, session_token))))],
             "", {}, {Line("TRACE", "Updated activity for session", {})})
    ELSE Out(reg, "", {}, {})

\* Handler<InvalidateClientSession> with the client-id index left as it was.
handle_InvalidateClientSession_keeps_lookup(reg, session_token) ==
    IF sessions_get(reg, session_token) # {}
    THEN LET session == TheOne(sessions_get(reg, session_token))
         IN  Out([reg EXCEPT !.sessions = @ \ {session},
                             !.metrics.authenticated_sessions =
                                 IF session.is_authenticated THEN @ - 1 ELSE @,
                             !.metrics.anonymous_sessions =
                                 IF session.is_authenticated THEN @ ELSE @ - 1,
                             !.metrics.total_sessions = @ - 1],
                 "true", {}, {Line("INFO", "Invalidated session for client", {})})
    ELSE Out(reg, "false", {}, {})

\* Handler<InvalidateClientSession>
handle_InvalidateClientSession(reg, session_token) ==
    IF sessions_get(reg, session_token) # {}
    THEN LET session == TheOne(sessions_get(reg, session_token))
         IN  Out([reg EXCEPT !.sessions = @ \ {session},
                             !.client_lookup = {p \in @ : p[1] # session.client_id},
                             !.metrics.authenticated_sessions =
                                 IF session.is_authenticated THEN @ - 1 ELSE @,
                             !.metrics.anonymous_sessions =
                                 IF session.is_authenticated THEN @ ELSE @ - 1,
                             !.metrics.total_sessions = @ - 1],
                 "true", {}, {Line("INFO", "Invalidated session for client", {})})
    ELSE Out(reg, "false", {}, {})

\* Handler<UpdateClientSession> with the wallet address left as it was.
update_fields_without_wallet(session, is_authenticated, wallet_address) ==
    update_activity(
        [session EXCEPT
            !.is_authenticated =
                IF is_authenticated # {} THEN TheOne(is_authenticated) ELSE @])

\* Handler<UpdateClientSession>, "Update session fields" and "Update activity
\* timestamp".  is_authenticated is an Option<bool> and wallet_address an
\* Option<Option<String>>.
update_fields(session, is_authenticated, wallet_address) ==
    update_activity(
        [session EXCEPT
            !.is_authenticated =
                IF is_authenticated # {} THEN TheOne(is_authenticated) ELSE @,
            !.wallet_address =
                IF wallet_address # {} THEN TheOne(wallet_address) ELSE @])

\* Handler<UpdateClientSession>
handle_UpdateClientSession(reg, session_token, is_authenticated, wallet_address) ==
    IF sessions_get(reg, session_token) # {}
    THEN LET session == TheOne(sessions_get(reg, session_token))
             was_authenticated == session.is_authenticated
             updated == update_fields(session, is_authenticated, wallet_address)
             delta ==
                 IF ~was_authenticated /\ updated.is_authenticated THEN 1
                 ELSE IF was_authenticated /\ ~updated.is_authenticated THEN 0 - 1
                 ELSE 0
         IN  IF is_expired(session, session_ttl)
             THEN Out(reg, "Expired", {}, {Line("DEBUG", "Session expired", {})})
             ELSE Out([reg EXCEPT !.sessions = sessions_put(reg, updated),
                                  !.metrics.anonymous_sessions = @ - delta,
                                  !.metrics.authenticated_sessions = @ + delta],
                      "Success", {updated},
                      {Line("DEBUG", "Updated session for client", {})}
                          \cup (IF delta = 1
                                THEN {Line("INFO", "Client upgraded to authenticated status", {})}
                                ELSE IF delta = 0 - 1
                                THEN {Line("INFO", "Client downgraded to anonymous status", {})}
                                ELSE {}))
    ELSE Out(reg, "NotFound", {},
             {Line("DEBUG", "Session not found for token", {session_token})})

\* cleanup_sessions that also removes a session idle for exactly the TTL.
cleanup_sessions_from_ttl(reg) ==
    LET expired == {s \in reg.sessions : store_now - s.last_active >= session_ttl}
        swept == [reg EXCEPT !.sessions = @ \ expired,
                             !.client_lookup =
                                 {p \in @ : \A s \in expired : s.client_id # p[1]},
                             !.metrics.expired_count = @ + Cardinality(expired)]
    IN  Out(update_metrics(swept), "", {},
            IF expired # {} THEN {Line("INFO", "Cleaned up expired sessions", {})} ELSE {})

\* ClientRegistryActor::cleanup_sessions, run by the interval timer of
\* started(): every session idle for more than the TTL is removed.
cleanup_sessions(reg) ==
    LET expired == {s \in reg.sessions : store_now - s.last_active > session_ttl}
        swept == [reg EXCEPT !.sessions = @ \ expired,
                             !.client_lookup =
                                 {p \in @ : \A s \in expired : s.client_id # p[1]},
                             !.metrics.expired_count = @ + Cardinality(expired)]
    IN  Out(update_metrics(swept), "", {},
            IF expired # {} THEN {Line("INFO", "Cleaned up expired sessions", {})} ELSE {})

\* `http` is the HTTP step just taken, or the request that waits for the
\* registry; `store_reply` is the message the registry has just handled.
Waiting(request) == IF request.pc = "done" THEN NoHttp ELSE request

\* The registry handles one message: its state, its answer and the log.
Registry_handles(op, token, client_id, args, out) ==
    /\ store_steps < MaxSteps
    /\ store_steps' = store_steps + 1
    /\ registry' = out.registry
    /\ store_reply' = [op |-> op, token |-> token, client_id |-> client_id,
                       args |-> args, result |-> out.result, session |-> out.session]
    /\ log' = log \cup Written(out.events)
    /\ http' = Waiting(http)
    /\ UNCHANGED <<store_now, proxyVars, hubVars, clientVars, monVars, compVars>>

Registry_RegisterAnonymousClient ==
    /\ registry.minted < MaxSessions
    /\ Registry_handles("RegisterAnonymousClient", 0, 0, <<>>,
                        handle_RegisterAnonymousClient(registry))

Registry_GetClientSession ==
    \E token \in PresentedTokens :
        Registry_handles("GetClientSession", token, 0, <<>>,
                         handle_GetClientSession(registry, token))

Registry_GetClientSessionById ==
    \E client_id \in PresentedTokens :
        Registry_handles("GetClientSessionById", 0, client_id, <<>>,
                         handle_GetClientSessionById(registry, client_id))

Registry_UpdateSessionActivity ==
    \E token \in PresentedTokens :
        Registry_handles("UpdateSessionActivity", token, 0, <<>>,
                         handle_UpdateSessionActivity(registry, token))

Registry_InvalidateClientSession ==
    \E token \in PresentedTokens :
        Registry_handles("InvalidateClientSession", token, 0, <<>>,
                         handle_InvalidateClientSession(registry, token))

Registry_UpdateClientSession ==
    \E token \in PresentedTokens, is_authenticated \in {{}, {TRUE}, {FALSE}},
       wallet_address \in {{}, {{}}} \cup {{{w}} : w \in Wallets} :
        Registry_handles("UpdateClientSession", token, 0,
                         <<is_authenticated, wallet_address>>,
                         handle_UpdateClientSession(registry, token, is_authenticated,
                                                    wallet_address))

Registry_cleanup_sessions ==
    Registry_handles("cleanup_sessions", 0, 0, <<>>, cleanup_sessions(registry))

\* Time passes: a second, a whole TTL, or a second more than that.
Store_tick ==
    /\ store_steps < MaxSteps
    /\ \E d \in {1, session_ttl, session_ttl + 1} : store_now' = store_now + d
    /\ store_steps' = store_steps + 1
    /\ store_reply' = NoSessionReply
    /\ http' = Waiting(http)
    /\ UNCHANGED <<registry, log, proxyVars, hubVars, clientVars, monVars, compVars>>

NextRegistry ==
    \/ Registry_RegisterAnonymousClient
    \/ Registry_GetClientSession
    \/ Registry_GetClientSessionById
    \/ Registry_UpdateSessionActivity
    \/ Registry_InvalidateClientSession
    \/ Registry_UpdateClientSession
    \/ Registry_cleanup_sessions
    \/ Store_tick

\* ---- The HTTP API (web-server/src/api) -----------------------------------
\* The handlers of api/sessions.rs, with the method and path of their
\* attribute macros, under the "/api" scope.
Handlers ==
    {[handler |-> "api_index", method |-> "GET", path |-> "/api/"],
     [handler |-> "create_client", method |-> "POST", path |-> "/api/client"],
     [handler |-> "get_client_info", method |-> "GET", path |-> "/api/client/{client_id}"],
     [handler |-> "invalidate_session", method |-> "DELETE", path |-> "/api/client/session"],
     [handler |-> "upgrade_session", method |-> "POST", path |-> "/api/sessions/upgrade"],
     [handler |-> "protected_endpoint", method |-> "GET", path |-> "/api/protected"]}

\* api::configure: the handlers registered as services of the scope.
configure == {"api_index", "create_client", "get_client_info", "invalidate_session"}

\* The service a request is dispatched to: the registered handler of its
\* method and path, or the application's default service.
Route(method, path) ==
    LET hit == {h \in Handlers : /\ h.handler \in configure
                                 /\ h.method = method
                                 /\ h.path = path}
    IN  IF hit # {} THEN TheOne(hit).handler ELSE "default_service"

\* An unparsable {client_id} path segment, and the empty cookie value.
Malformed == 0 - 1
Cleared == 0 - 1

\* generate_jwt_token / validate_jwt_token (HS256 with JWT_SECRET): the
\* claims, and whether the signature was made with the secret.
generate_jwt_token(client_id, wallet_address) ==
    [sub |-> client_id, wallet |-> wallet_address,
     exp |-> store_now + jwt_lifetime, signed |-> TRUE]

Forged == [sub |-> 1, wallet |-> 1, exp |-> jwt_lifetime, signed |-> FALSE]

validate_jwt_token(token) == token.signed /\ store_now <= token.exp

\* ClientSessionResponse::from(&session)
ClientSessionResponse(session) ==
    Body("", "", session.client_id, session.created_at, session.is_authenticated,
         session.wallet_address, FALSE, {})

NoMessage(reg) ==
    [op |-> "", token |-> 0, client_id |-> 0, args |-> <<>>, out |-> Out(reg, "", {}, {})]
Message(op, token, client_id, out) ==
    [op |-> op, token |-> token, client_id |-> client_id, args |-> <<>>, out |-> out]

\* What a handler has done when it returns or waits: the registry message it
\* sent last (with the registry's answer), the log events of the handler
\* itself, and the response (pc = "done") or where it waits.
Resp(msg, events, status, body, set_cookie, pc) ==
    [msg |-> msg, events |-> events, status |-> status, body |-> body,
     set_cookie |-> set_cookie, pc |-> pc]

\* api_index
api_index(reg, req) ==
    Resp(NoMessage(reg), {}, 200, Body("", "", 0, 0, FALSE, {}, FALSE, {}), {}, "done")

\* create_client from the RegisterAnonymousClient message on.
create_client_register(reg) ==
    LET out == handle_RegisterAnonymousClient(reg)
        session == TheOne(out.session)
    IN  Resp(Message("RegisterAnonymousClient", 0, 0, out),
             {Line("INFO", "Created new client session", {})},
             200, Body("", "", session.client_id, store_now, FALSE, {}, TRUE, {}),
             {session.session_token}, "done")

\* create_client without the look at the cookie.
create_client_always_new(reg, req) == create_client_register(reg)

\* create_client up to its first answer.
create_client(reg, req) ==
    IF req.cookie # {}
    THEN LET out == handle_GetClientSession(reg, TheOne(req.cookie))
             msg == Message("GetClientSession", TheOne(req.cookie), 0, out)
         IN  IF out.result = "Success"
             THEN Resp(msg, {Line("INFO", "Returning existing client session", {})},
                       200, ClientSessionResponse(TheOne(out.session)), {}, "done")
             ELSE IF out.result = "Expired"
             THEN Resp(msg, {Line("INFO", "Session expired, creating new client", {})},
                       0, ErrorBody(""), {}, "register")
             ELSE Resp(msg, {Line("INFO", "Session not found or invalid, creating new client", {})},
                       0, ErrorBody(""), {}, "register")
    ELSE create_client_register(reg)

\* get_client_info
get_client_info(reg, req) ==
    IF req.id = Malformed
    THEN Resp(NoMessage(reg), {}, 400, ErrorBody("Invalid client ID format"), {}, "done")
    ELSE IF req.cookie # {}
    THEN LET out == handle_GetClientSession(reg, TheOne(req.cookie))
             msg == Message("GetClientSession", TheOne(req.cookie), 0, out)
         IN  IF out.result = "Success"
             THEN IF TheOne(out.session).client_id # req.id
                  THEN Resp(msg, {Line("WARN", "Client ID mismatch", {})},
                            403, ErrorBody("Access denied"), {}, "done")
                  ELSE Resp(msg, {}, 200, ClientSessionResponse(TheOne(out.session)),
                            {}, "done")
             ELSE IF out.result = "Expired"
             THEN Resp(msg, {}, 401, ErrorBody("Session expired"), {}, "done")
             ELSE Resp(msg, {}, 401, ErrorBody("Invalid session"), {}, "done")
    ELSE LET out == handle_GetClientSessionById(reg, req.id)
             msg == Message("GetClientSessionById", 0, req.id, out)
         IN  IF out.result = "Success"
             THEN Resp(msg, {Line("WARN", "Session found for client but cookie is missing", {})},
                       200, ClientSessionResponse(TheOne(out.session)),
                       {TheOne(out.session).session_token}, "done")
             ELSE Resp(msg, {}, 404, ErrorBody("Client not found"), {}, "done")

\* invalidate_session
invalidate_session(reg, req) ==
    IF req.cookie # {}
    THEN LET out == handle_InvalidateClientSession(reg, TheOne(req.cookie))
             msg == Message("InvalidateClientSession", TheOne(req.cookie), 0, out)
         IN  IF out.result = "true"
             THEN Resp(msg, {Line("INFO", "Session invalidated successfully", {})},
                       200, Body("", "success", 0, 0, FALSE, {}, FALSE, {}),
                       {Cleared}, "done")
             ELSE Resp(msg, {Line("INFO", "Attempt to invalidate non-existent session", {})},
                       404, ErrorBody("Session not found"), {}, "done")
    ELSE Resp(NoMessage(reg), {}, 400, ErrorBody("No session cookie found"), {}, "done")

\* upgrade_session
upgrade_session(reg, req) ==
    IF req.cookie # {}
    THEN LET out == handle_UpdateClientSession(reg, TheOne(req.cookie), {TRUE},
                                               {req.wallet})
             msg == [Message("UpdateClientSession", TheOne(req.cookie), 0, out)
                        EXCEPT !.args = <<{TRUE}, {req.wallet}>>]
         IN  IF out.result = "Success"
             THEN Resp(msg, {}, 200,
                       Body("", "success", 0, 0, FALSE, {}, FALSE,
                            {generate_jwt_token(TheOne(out.session).client_id,
                                                TheOne(req.wallet))}),
                       {}, "done")
             ELSE IF out.result = "Expired"
             THEN Resp(msg, {}, 401, ErrorBody("Session expired"), {}, "done")
             ELSE Resp(msg, {}, 401, ErrorBody("Invalid session"), {}, "done")
    ELSE Resp(NoMessage(reg), {}, 401, ErrorBody("No session cookie found"), {}, "done")

\* protected_endpoint, with validate_jwt
protected_endpoint(reg, req) ==
    IF req.bearer # {}
    THEN IF validate_jwt_token(TheOne(req.bearer))
         THEN Resp(NoMessage(reg), {}, 200,
                   Body("", "success", TheOne(req.bearer).sub, 0, FALSE,
                        {TheOne(req.bearer).wallet}, FALSE, {}),
                   {}, "done")
         ELSE Resp(NoMessage(reg), {Line("WARN", "JWT validation failed", {})},
                   401, ErrorBody("Invalid token"), {}, "done")
    ELSE Resp(NoMessage(reg), {}, 401,
              ErrorBody("Authorization header missing or invalid"), {}, "done")

\* static_files::spa_index, the default service: nothing of the API or of
\* the WebSocket routes is answered with the index file.
spa_index(reg, req) ==
    Resp(NoMessage(reg), {}, 404, ErrorBody("Not Found"), {}, "done")

\* The service a request is dispatched to, run up to its response or to
\* its next message.
Serve(handler, reg, req) ==
    CASE handler = "api_index" -> api_index(reg, req)
      [] handler = "create_client" -> create_client(reg, req)
      [] handler = "get_client_info" -> get_client_info(reg, req)
      [] handler = "invalidate_session" -> invalidate_session(reg, req)
      [] handler = "upgrade_session" -> upgrade_session(reg, req)
      [] handler = "protected_endpoint" -> protected_endpoint(reg, req)
      [] OTHER -> spa_index(reg, req)

\* The requests of a client: one of the API's methods and paths, with or
\* without a cookie; a bearer token is one a response has carried, or a
\* forged one.  A field the path does not use is left empty.
Request(method, path, id, cookie, wallet, bearer) ==
    [method |-> method, path |-> path, id |-> id, cookie |-> cookie,
     wallet |-> wallet, bearer |-> bearer]

Cookies == {{}} \cup {{t} : t \in PresentedTokens}

Requests ==
    {Request("GET", "/api/", 0, {}, {}, {})}
    \cup {Request("POST", "/api/client", 0, c, {}, {}) : c \in Cookies}
    \cup {Request("GET", "/api/client/{client_id}", id, c, {}, {}) :
              id \in {Malformed} \cup PresentedTokens, c \in Cookies}
    \cup {Request("DELETE", "/api/client/session", 0, c, {}, {}) : c \in Cookies}
    \cup {Request("POST", "/api/sessions/upgrade", 0, c, {w}, {}) :
              c \in Cookies, w \in Wallets}
    \cup {Request("GET", "/api/protected", 0, {}, {}, b) :
              b \in {{}, {Forged}} \cup {http.body.token}}

\* A step of an HTTP handler takes effect: the registry, the answer of the
\* registry to the handler's message, the log and the response.
Api_step(req, handler, r) ==
    /\ store_steps < MaxSteps
    /\ store_steps' = store_steps + 1
    /\ registry' = r.msg.out.registry
    /\ store_reply' = [op |-> r.msg.op, token |-> r.msg.token,
                       client_id |-> r.msg.client_id, args |-> r.msg.args,
                       result |-> r.msg.out.result, session |-> r.msg.out.session]
    /\ log' = log \cup Written(r.msg.out.events \cup r.events)
    /\ http' = [method |-> req.method, path |-> req.path,
                id |-> req.id, cookie |-> req.cookie, wallet |-> req.wallet,
                bearer |-> req.bearer, handler |-> handler, pc |-> r.pc,
                status |-> r.status, body |-> r.body, set_cookie |-> r.set_cookie]
    /\ UNCHANGED <<store_now, proxyVars, hubVars, clientVars, monVars, compVars>>

\* A request arrives and its handler runs to its response, or to the point
\* where create_client sends RegisterAnonymousClient.
Api_request ==
    /\ http.pc = "done"
    /\ \E req \in Requests :
        /\ Route(req.method, req.path) = "create_client" /\ req.cookie = {}
               => registry.minted < MaxSessions
        /\ Api_step(req, Route(req.method, req.path),
                    Serve(Route(req.method, req.path), registry, req))

\* create_client, after an Expired or NotFound answer: RegisterAnonymousClient.
Api_create_client_register ==
    /\ http.pc = "register"
    /\ registry.minted < MaxSessions
    /\ Api_step(http, http.handler, create_client_register(registry))

NextStore == NextRegistry \/ Api_request \/ Api_create_client_register

(***************************************************************************)
(* One ProxyActor and its connection to the Hub: heartbeat, the            *)
(* connection tasks of connect_to_ws_server, ProxyMessage::Disconnected    *)
(* and the backoff before the next dial.  Time is abstracted: a heartbeat  *)
(* tick may or may not find the browser silent for more than 30 s.  The    *)
(* frames forwarded in either direction are not modelled.                  *)
(***************************************************************************)
proxy_max_backoff == 60
limb == 65536
u64_bits == 64

\* 2u64.pow(exp) as four 16-bit limbs, least significant first.  Below
\* 2^64 it is the single bit exp; from exp = 64 on a multiplication
\* overflows and every bit of the wrapped product is zero.
pow(exp) ==
    IF exp < u64_bits
    THEN [value |-> [k \in 1..4 |-> IF k = (exp \div 16) + 1
                                    THEN 2 ^ (exp % 16) ELSE 0],
          overflow |-> FALSE]
    ELSE [value |-> <<0, 0, 0, 0>>, overflow |-> TRUE]

\* std::cmp::min(v, cap) for a u64 v and a cap below 2^16.
min_u64(v, cap) ==
    IF v[2] = 0 /\ v[3] = 0 /\ v[4] = 0 /\ v[1] <= cap THEN v[1] ELSE cap

\* std::cmp::min(2u64.pow(attempts), cap): the seconds of the backoff, or a
\* panic where the build checks arithmetic overflow.
backoff(attempts, cap, build) ==
    LET p == pow(attempts)
    IN  IF p.overflow /\ build = "debug"
        THEN [panic |-> TRUE, seconds |-> 0]
        ELSE [panic |-> FALSE, seconds |-> min_u64(p.value, cap)]

LinkMsg(kind) == [kind |-> kind]

\* ProxyActor::connect_to_ws_server: a new channel and a new connection task.
connect_to_ws_server(l) == [l EXCEPT !.ws_sink = TRUE, !.dialing = @ + 1]

CanDial == link.dialing + link.open < MaxDials

\* first_dial: the task that started() spawned has not finished connecting.
\* Whether a task that finishes connecting is that one or a later one.
IsDial(first) ==
    /\ link.dialing > 0
    /\ first => link.first_dial
    /\ ~first => link.dialing > (IF link.first_dial THEN 1 ELSE 0)

\* "Attempt reconnection": the backoff, run_later and the counter, as in the
\* heartbeat's timeout branch and in the Disconnected arm.
schedule_reconnection(l) ==
    LET b == backoff(l.reconnect_attempts, proxy_max_backoff, l.build)
        cleared == [l EXCEPT !.ws_sink = FALSE, !.is_connected_to_server = FALSE]
    IN  IF b.panic
        THEN [cleared EXCEPT !.st = "panicked", !.mailbox = <<>>]
        ELSE [cleared EXCEPT !.timers = @ + 1, !.delay = {b.seconds},
                             !.reconnect_attempts = @ + 1]

CanSchedule ==
    /\ link.timers < MaxLinkTimers
    /\ link.reconnect_attempts < MaxLinkAttempts

LinkRest == <<proxy, route, proxyStarts, hubVars, clientVars, monVars, storeVars,
              routerVars, snapVars, tallyVars>>

\* Actor::started for ProxyActor.
Link_started ==
    /\ link.st = "created"
    /\ link' = [connect_to_ws_server(link) EXCEPT
                   !.st = "running", !.is_connected_to_server = TRUE,
                   !.first_dial = TRUE]
    /\ active_connections' =
          IF link.session_token = {} THEN active_connections
          ELSE register(active_connections, TheOne(link.session_token), 1)
    /\ UNCHANGED LinkRest

\* The run_interval callback of ProxyActor::heartbeat.
Link_heartbeat(timed_out) ==
    /\ link.st = "running"
    /\ IF timed_out
       THEN /\ CanSchedule
            /\ link' = schedule_reconnection(link)
       ELSE link' = [link EXCEPT !.to_browser = "ping"]
    /\ UNCHANGED <<active_connections, LinkRest>>

\* The run_later(backoff) closure: connect_to_ws_server.
Link_backoff_elapsed ==
    /\ link.st = "running"
    /\ link.timers > 0
    /\ CanDial
    /\ link' = [connect_to_ws_server(link) EXCEPT !.timers = @ - 1]
    /\ UNCHANGED <<active_connections, LinkRest>>

\* addr.do_send from a connection task: dropped once the actor is gone.
Link_do_send(l, msgs) ==
    IF l.st = "running" THEN [l EXCEPT !.mailbox = @ \o msgs] ELSE l

\* A connection task: connect_async fails.
Link_dial_failed(first) ==
    /\ IsDial(first)
    /\ Len(link.mailbox) < LinkMailboxCap
    /\ link' = Link_do_send([link EXCEPT !.dialing = @ - 1,
                                         !.first_dial = @ /\ ~first],
                            <<LinkMsg("Disconnected")>>)
    /\ UNCHANGED <<active_connections, LinkRest>>

\* A connection task: connect_async succeeds.
Link_dial_connected(first) ==
    /\ IsDial(first)
    /\ link' = [link EXCEPT !.dialing = @ - 1, !.open = @ + 1,
                            !.first_dial = @ /\ ~first]
    /\ UNCHANGED <<active_connections, LinkRest>>

\* A connection task's read loop ends: on a Close frame, on an error (which
\* sends Disconnected in the arm and again after the loop) or at the
\* stream's end.
Link_upstream_ended(how) ==
    /\ link.open > 0
    /\ LET msgs == CASE how = "close" ->
                          <<LinkMsg("WebSocketClose"), LinkMsg("Disconnected")>>
                      [] how = "error" ->
                          <<LinkMsg("Disconnected"), LinkMsg("Disconnected")>>
                      [] OTHER -> <<LinkMsg("Disconnected")>>
       IN  /\ Len(link.mailbox) + Len(msgs) <= LinkMailboxCap
           /\ link' = Link_do_send([link EXCEPT !.open = @ - 1], msgs)
    /\ UNCHANGED <<active_connections, LinkRest>>

\* Handler<ProxyMessage>: the Disconnected arm.
Link_handle_Disconnected ==
    /\ link.st = "running"
    /\ link.mailbox # <<>>
    /\ Head(link.mailbox).kind = "Disconnected"
    /\ CanSchedule
    /\ link' = schedule_reconnection([link EXCEPT !.mailbox = Tail(@)])
    /\ UNCHANGED <<active_connections, LinkRest>>

\* Handler<ProxyMessage>: the WebSocketClose arm, ctx.close(None).
Link_handle_WebSocketClose ==
    /\ link.st = "running"
    /\ link.mailbox # <<>>
    /\ Head(link.mailbox).kind = "WebSocketClose"
    /\ link' = [link EXCEPT !.mailbox = Tail(@), !.to_browser = "close"]
    /\ UNCHANGED <<active_connections, LinkRest>>

\* StreamHandler: a Text frame from the browser.
Link_browser_text ==
    /\ link.st = "running"
    /\ IF link.ws_sink
       THEN UNCHANGED link
       ELSE /\ CanDial
            /\ link' = connect_to_ws_server(link)
    /\ UNCHANGED <<active_connections, LinkRest>>

\* The browser's stream ends: the actor stops and Actor::stopped
\* unregisters its session token.
Link_stopped ==
    /\ link.st = "running"
    /\ link' = [link EXCEPT !.st = "stopped", !.mailbox = <<>>, !.timers = 0]
    /\ active_connections' =
          IF link.session_token = {} THEN active_connections
          ELSE unregister(active_connections, TheOne(link.session_token), 1)
    /\ UNCHANGED LinkRest

NextLink ==
    \/ Link_started
    \/ \E timed_out \in BOOLEAN : Link_heartbeat(timed_out)
    \/ Link_backoff_elapsed
    \/ \E first \in BOOLEAN : Link_dial_failed(first)
    \/ \E first \in BOOLEAN : Link_dial_connected(first)
    \/ \E how \in {"close", "error", "end"} : Link_upstream_ended(how)
    \/ Link_handle_Disconnected
    \/ Link_handle_WebSocketClose
    \/ Link_browser_text
    \/ Link_stopped

InitLink ==
    /\ InitMain /\ InitRouter /\ InitSnap /\ InitTally
    /\ link \in {ProxyLink_new(build, tok) : build \in Builds, tok \in {{}, {1}}}

(***************************************************************************)
(* The RouterActor as a component: its handlers, fed with any message its  *)
(* mailbox accepts.  A client or agent actor is known by its id.  Which    *)
(* mailboxes are full or closed when the Router handles a message is an   *)
(* input (`full`: agents' mailboxes for a ClientMessage or SystemMessage,  *)
(* clients' for an AgentMessage); what was offered to whom, and whether    *)
(* the target took it, is in `routed`.                                     *)
(***************************************************************************)
ClientMessage(client_id) ==
    [type |-> "ClientMessage", client_id |-> {client_id}, target_client_id |-> {}]
AgentMessage(target_client_id) ==
    [type |-> "AgentMessage", client_id |-> {}, target_client_id |-> target_client_id]
SystemMessage(variant, client_id) ==
    [type |-> variant, client_id |-> client_id, target_client_id |-> {}]

\* serde_json::to_string(&msg): the JSON text of the message.
to_string(msg) == <<"json", msg>>

\* RouterActor::get_default_agent.
Router_get_default_agent(r) ==
    {g \in r.default_agent_id : g \in r.agents}

\* Addr::try_send(message): one offer; Ok unless the target's mailbox is
\* full or closed.
try_send(full, to, content) ==
    [to |-> to, content |-> content, ok |-> to \notin full]

\* Handler<ClientMessage>: the try_sends it makes.
ClientMessage_offers_clients_too(r, full, msg) ==
    {try_send(full, AgentTarget(g), to_string(msg)) : g \in r.agents}
       \cup {try_send(full, ClientTarget(c), to_string(msg)) : c \in r.clients}

ClientMessage_offers(r, full, msg) ==
    IF Router_get_default_agent(r) # {}
    THEN {try_send(full, AgentTarget(g), to_string(msg)) : g \in Router_get_default_agent(r)}
    ELSE {try_send(full, AgentTarget(g), to_string(msg)) : g \in r.agents}

\* Handler<AgentMessage>: the try_sends it makes, to the target client if it
\* is registered, or to every registered client.
AgentMessage_offers_until_failure(r, full, msg) ==
    IF msg.target_client_id # {}
    THEN {try_send(full, ClientTarget(c), to_string(msg)) :
              c \in msg.target_client_id \cap r.clients}
    ELSE {try_send(full, ClientTarget(c), to_string(msg)) :
              c \in {d \in r.clients :
                        \A e \in r.clients :
                            e < d => ClientTarget(e) \notin full}}

AgentMessage_offers(r, full, msg) ==
    IF msg.target_client_id # {}
    THEN {try_send(full, ClientTarget(c), to_string(msg)) :
              c \in msg.target_client_id \cap r.clients}
    ELSE {try_send(full, ClientTarget(c), to_string(msg)) : c \in r.clients}

\* Handler<SystemMessage>: ClientConnected and ClientDisconnected go to the
\* default agent; every other variant is logged only.
SystemMessage_offers(r, full, msg) ==
    IF msg.type \in {"ClientConnected", "ClientDisconnected"}
    THEN {try_send(full, AgentTarget(g), to_string(msg)) : g \in Router_get_default_agent(r)}
    ELSE {}

RouterRest == <<proxyVars, hubVars, clientVars, monVars, storeVars, linkVars,
                snapVars, tallyVars>>

\* The Router handles a message that makes the try_sends `offers`.
Router_routes(msg, offers) ==
    /\ routed' = [msg |-> msg, offers |-> offers]
    /\ UNCHANGED <<router, RouterRest>>

Router_handle_ClientMessage(msg, full) ==
    Router_routes(msg, ClientMessage_offers(router, full, msg))

Router_handle_AgentMessage(msg, full) ==
    Router_routes(msg, AgentMessage_offers(router, full, msg))

Router_handle_SystemMessage(msg, full) ==
    Router_routes(msg, SystemMessage_offers(router, full, msg))

\* Handler<RegisterClient>, <UnregisterClient>, <RegisterAgent>,
\* <UnregisterAgent>: insert or remove by id.
Router_registers(r) ==
    /\ router' = r
    /\ routed' = [msg |-> NoEnvelope, offers |-> {}]
    /\ UNCHANGED RouterRest

Router_handle_RegisterClient(c) ==
    Router_registers([router EXCEPT !.clients = @ \cup {c}])

Router_handle_UnregisterClient(c) ==
    Router_registers([router EXCEPT !.clients = @ \ {c}])

Router_handle_RegisterAgent(g) ==
    Router_registers([router EXCEPT !.agents = @ \cup {g}])

Router_handle_UnregisterAgent(g) ==
    Router_registers([router EXCEPT !.agents = @ \ {g}])

SystemVariants == {"ClientConnected", "ClientDisconnected", "AgentConnected"}

NextRouter ==
    \/ \E c \in RouterClientIds, full \in SUBSET AgentTargets :
          Router_handle_ClientMessage(ClientMessage(c), full)
    \/ \E target \in {{}} \cup {{c} : c \in RouterClientIds}, full \in SUBSET ClientTargets :
          Router_handle_AgentMessage(AgentMessage(target), full)
    \/ \E variant \in SystemVariants, c \in RouterClientIds, full \in SUBSET AgentTargets :
          Router_handle_SystemMessage(
              SystemMessage(variant, IF variant = "AgentConnected" THEN {} ELSE {c}),
              full)
    \/ \E c \in RouterClientIds : Router_handle_RegisterClient(c)
    \/ \E c \in RouterClientIds : Router_handle_UnregisterClient(c)
    \/ \E g \in RouterAgentIds : Router_handle_RegisterAgent(g)
    \/ \E g \in RouterAgentIds : Router_handle_UnregisterAgent(g)

(***************************************************************************)
(* The StateManager's session snapshots (StateManagerActor.sessions) for   *)
(* one client id, on a clock of seconds.  The client actors that save and  *)
(* ask for the snapshot are the environment.                               *)
(***************************************************************************)
sm_session_ttl == 3600
session_cleanup_interval == 300

SnapRest == <<proxyVars, hubVars, clientVars, monVars, storeVars, linkVars,
              routerVars, tallyVars>>

\* Handler<SaveSessionState> for StateManagerActor; last_seen is the
\* saving actor's last_heartbeat, now or one step ago.
Snap_handle_SaveSessionState(seen) ==
    /\ snapshots.saves < MaxSaves
    /\ seen >= 0
    /\ snapshots' = [snapshots EXCEPT !.sessions = {[last_seen |-> seen]},
                            !.saves = @ + 1]
    /\ UNCHANGED SnapRest

\* Handler<GetSessionState> for StateManagerActor: a clone of the stored
\* snapshot, or None.
Snap_handle_GetSessionState ==
    /\ snapshots' = [snapshots EXCEPT !.asked = TRUE, !.reply = snapshots.sessions]
    /\ UNCHANGED SnapRest

\* The run_interval(300 s) callback: cleanup_expired_sessions.
Snap_cleanup_expired_sessions ==
    /\ snapshots.now >= snapshots.cleaned + session_cleanup_interval
    /\ snapshots' = [snapshots EXCEPT
                  !.cleaned = snapshots.now,
                  !.sessions = {s \in @ : ~(snapshots.now - s.last_seen > sm_session_ttl)}]
    /\ UNCHANGED SnapRest

\* Time passes; a cleanup that is due has run.
Snap_tick ==
    /\ snapshots.now < MaxSnapClock
    /\ snapshots.now < snapshots.cleaned + session_cleanup_interval
    /\ snapshots' = [snapshots EXCEPT !.now = @ + SnapTick, !.asked = FALSE, !.reply = {}]
    /\ UNCHANGED SnapRest

NextSnap ==
    \/ \E seen \in {snapshots.now, snapshots.now - SnapTick} : Snap_handle_SaveSessionState(seen)
    \/ Snap_handle_GetSessionState
    \/ Snap_cleanup_expired_sessions
    \/ Snap_tick

(***************************************************************************)
(* StateManagerActor.clients for one client id, with the record's          *)
(* disconnection_count, and the connections of that id, one after the      *)
(* other: each is registered by the route, starts, may time out, may       *)
(* receive Pong, Close or a protocol error, and ends.  Only the messages    *)
(* that reach the record are in the mailbox (session snapshots are not).   *)
(***************************************************************************)
TallyRest == <<proxyVars, hubVars, clientVars, monVars, storeVars, linkVars,
               routerVars, snapVars>>

TallyMsg(k, state) == [kind |-> k, state |-> state]

Tally_send(msgs) == tally.mailbox \o msgs

\* What Actor::stopped for ClientSessionActor sends to the StateManager.
Tally_stopped_sends ==
    <<TallyMsg("UpdateClientState", "Disconnected"), TallyMsg("UnregisterClient", "")>>

\* ws_client_route: RegisterClient is sent and the actor is created.  The
\* id's earlier connection, if any, has ended.
Tally_ws_client_route ==
    /\ tally.conn \in {"none", "stopped"}
    /\ tally.opened < MaxConnections
    /\ tally' = [tally EXCEPT !.conn = "created", !.reconnect_attempts = 0,
                              !.pongs = 0, !.opened = @ + 1,
                              !.mailbox = Tally_send(<<TallyMsg("RegisterClient", "")>>)]
    /\ UNCHANGED TallyRest

\* Actor::started for ClientSessionActor: UpdateClientState Connected.
Tally_started ==
    /\ tally.conn = "created"
    /\ tally' = [tally EXCEPT !.conn = "running",
                              !.mailbox = Tally_send(<<TallyMsg("UpdateClientState", "Connected")>>)]
    /\ UNCHANGED TallyRest

\* The heartbeat closure observing a timeout: UpdateClientState
\* Reconnecting, reconnect_attempts += 1, and past max_reconnect_attempts
\* UpdateClientState Disconnected, UnregisterClient and ctx.stop (stopped()
\* then runs).  The closure runs every 5 s: the StateManager has handled
\* what was sent before.
Tally_heartbeat_timeout ==
    /\ tally.conn \in {"running", "closing"}
    /\ tally.mailbox = <<>>
    /\ LET first == <<TallyMsg("UpdateClientState", "Reconnecting")>>
           given_up == tally.reconnect_attempts + 1 > client_max_reconnect_attempts
       IN  tally' =
             IF given_up
             THEN [tally EXCEPT
                     !.conn = "stopped", !.reconnect_attempts = @ + 1,
                     !.ended = @ + 1,
                     !.mailbox = Tally_send(first
                                   \o <<TallyMsg("UpdateClientState", "Disconnected"),
                                        TallyMsg("UnregisterClient", "")>>
                                   \o Tally_stopped_sends)]
             ELSE [tally EXCEPT !.reconnect_attempts = @ + 1,
                                !.mailbox = Tally_send(first)]
    /\ UNCHANGED TallyRest

\* StreamHandler, Pong: ClientActivity, reconnect_attempts back to 0.
Tally_handle_Pong ==
    /\ tally.conn \in {"running", "closing"}
    /\ tally.pongs < MaxActivity
    /\ tally' = [tally EXCEPT !.reconnect_attempts = 0, !.pongs = @ + 1,
                              !.mailbox = Tally_send(<<TallyMsg("ClientActivity", "")>>)]
    /\ UNCHANGED TallyRest

\* StreamHandler, Close: UpdateClientState Disconnected and ctx.close; the
\* actor stops when the peer's stream ends.
Tally_handle_Close ==
    /\ tally.conn = "running"
    /\ tally' = [tally EXCEPT !.conn = "closing",
                              !.mailbox = Tally_send(<<TallyMsg("UpdateClientState", "Disconnected")>>)]
    /\ UNCHANGED TallyRest

\* StreamHandler, Err(protocol error): UpdateClientState Error and
\* ctx.stop; stopped() then runs.
Tally_handle_Err ==
    /\ tally.conn = "running"
    /\ tally' = [tally EXCEPT !.conn = "stopped", !.ended = @ + 1,
                              !.mailbox = Tally_send(<<TallyMsg("UpdateClientState", "Error")>>
                                                     \o Tally_stopped_sends)]
    /\ UNCHANGED TallyRest

\* The peer's stream ends (after a close handshake or a dropped socket):
\* the actor stops and stopped() runs.
Tally_stream_finished ==
    /\ tally.conn \in {"running", "closing"}
    /\ tally' = [tally EXCEPT !.conn = "stopped", !.ended = @ + 1,
                              !.mailbox = Tally_send(Tally_stopped_sends)]
    /\ UNCHANGED TallyRest

TallyHead(kind) == tally.mailbox # <<>> /\ Head(tally.mailbox).kind = kind

\* Handler<RegisterClient> for StateManagerActor: an existing record becomes
\* Connected with reconnect_attempts 0 and keeps its metrics; otherwise a
\* fresh record with disconnection_count 0.
TallySM_RegisterClient ==
    /\ TallyHead("RegisterClient")
    /\ tally' = [tally EXCEPT
                   !.mailbox = Tail(@),
                   !.record =
                      IF @ = {}
                      THEN {[state |-> "Connected", reconnect_attempts |-> 0,
                             disconnection_count |-> 0]}
                      ELSE {[r EXCEPT !.state = "Connected",
                                      !.reconnect_attempts = 0] : r \in @}]
    /\ UNCHANGED TallyRest

\* Handler<UpdateClientState> for StateManagerActor: a change into
\* Disconnected counts one more disconnection.
TallySM_UpdateClientState ==
    /\ TallyHead("UpdateClientState")
    /\ LET state == Head(tally.mailbox).state
       IN tally' = [tally EXCEPT
                      !.mailbox = Tail(@),
                      !.record =
                         {[UpdateState(r, state) EXCEPT
                              !.disconnection_count =
                                  IF r.state # state /\ state = "Disconnected"
                                  THEN @ + 1 ELSE @] : r \in @}]
    /\ UNCHANGED TallyRest

\* Handler<UnregisterClient> for StateManagerActor: the record stays,
\* Disconnected, and disconnection_count += 1.
TallySM_UnregisterClient ==
    /\ TallyHead("UnregisterClient")
    /\ tally' = [tally EXCEPT
                   !.mailbox = Tail(@),
                   !.record = {[r EXCEPT !.state = "Disconnected",
                                         !.disconnection_count = @ + 1] : r \in @}]
    /\ UNCHANGED TallyRest

\* Handler<ClientActivity> for StateManagerActor.
TallySM_ClientActivity ==
    /\ TallyHead("ClientActivity")
    /\ tally' = [tally EXCEPT !.mailbox = Tail(@),
                              !.record = {Activity(r) : r \in @}]
    /\ UNCHANGED TallyRest

NextTally ==
    \/ Tally_ws_client_route
    \/ Tally_started
    \/ Tally_heartbeat_timeout
    \/ Tally_handle_Pong
    \/ Tally_handle_Close
    \/ Tally_handle_Err
    \/ Tally_stream_finished
    \/ TallySM_RegisterClient
    \/ TallySM_UpdateClientState
    \/ TallySM_UnregisterClient
    \/ TallySM_ClientActivity

SpecTally == InitHub /\ [][NextTally]_vars

SpecProxy == InitHub /\ [][NextProxy]_vars
SpecGiveUp == InitGiveUp /\ [][NextGiveUp]_vars
SpecClient == InitClient /\ [][NextClient]_vars
SpecStore == InitHub /\ [][NextStore]_vars
SpecHub == InitHub /\ [][NextHub]_vars
SpecSession == InitHub /\ [][NextSession]_vars
SpecAgents == InitHub /\ [][NextAgents]_vars
SpecAgentGate == InitHub /\ [][NextAgentGate]_vars
SpecLink == InitLink /\ [][NextLink]_vars
SpecRouter == InitHub /\ [][NextRouter]_vars
SpecBacklog == InitBacklog /\ [][NextBacklog]_vars
SpecSnap == InitHub /\ [][NextSnap]_vars

\* The actor of SpecBacklog with its scheduling: a running actor handles the
\* messages in its mailbox, its run_later timers fire, and the StateManager
\* answers GetSessionState.
SpecFlush ==
    /\ InitBacklog /\ [][NextBacklog]_vars
    /\ WF_vars(Session_restore_reply)
    /\ WF_vars(Session_handle_SessionState)
    /\ WF_vars(Session_handle_ClientActorMessage)
    /\ WF_vars(Session_flush_timer)

(***************************************************************************)
(* C2: every live connection has one registry record, in state Connected.  *)
(* Read at rest (the StateManager's mailbox is empty), for a running actor  *)
(* that the record of its id points at, while no live actor of that id is  *)
(* in a reconnect episode: the record is Connected.                        *)
(***************************************************************************)
C2_LiveIsConnected ==
    sm_mailbox = <<>> =>
        /\ \A a \in CActorIds : \A r \in sm_clients[cactor[a].client_id] :
              ( /\ cactor[a].st = "running"
                /\ ~cactor[a].waiting
                /\ r.addr = a
                /\ \A b \in CActorIds :
                      (Live(cactor[b]) /\ cactor[b].client_id = cactor[a].client_id)
                      => cactor[b].reconnect_attempts = 0 )
              => r.state = "Connected"
        /\ \A a \in AActorIds : \A r \in sm_agents :
              ( /\ aactor[a].st = "running"
                /\ r.addr = a
                /\ \A b \in AActorIds :
                      Live(aactor[b])
                      => aactor[b].reconnect_attempts = 0 /\ aactor[b].backoff_timers = 0 )
              => r.state = "Connected"

(***************************************************************************)
(* C3: client-to-agent delivery.  A text frame a client actor receives     *)
(* while the default agent is registered with the Router and live is       *)
(* handed to the Router as a ClientMessage carrying that text and the      *)
(* sender's id (the first hop of its way to the agent).                    *)
(***************************************************************************)
C3_TextIsForwarded ==
    [][\A a \in CActorIds, text \in ClientTexts :
          ( /\ ClientSessionActor_handle_Text(a, text)
            /\ \E g \in rt_agents : Live(aactor[g]) )
          => /\ Len(rt_mailbox') = Len(rt_mailbox) + 1
             /\ rt_mailbox'[Len(rt_mailbox')] =
                   [RMsg("ClientMessage", cactor[a].client_id) EXCEPT !.content = text]]_vars

(***************************************************************************)
(* C4: agent-to-client unicast.  A well-formed AgentMessage frame for      *)
(* target client C that an agent actor receives while C is registered with *)
(* the Router and live is handed to the Router (the first hop of its way   *)
(* to C's actor).                                                          *)
(***************************************************************************)
C4_UnicastIsForwarded ==
    [][\A a \in AActorIds, c \in HubClients, content \in ClientTexts :
          ( /\ AgentActor_handle_Text(a, TRUE, {c}, content)
            /\ \E k \in rt_clients[c] : Live(cactor[k]) )
          => /\ Len(rt_mailbox') = Len(rt_mailbox) + 1
             /\ rt_mailbox'[Len(rt_mailbox')].kind = "AgentMessage"
             /\ rt_mailbox'[Len(rt_mailbox')].addr = {c}]_vars

(***************************************************************************)
(* C5: snapshot on disconnect.  Once the only connection a client id ever  *)
(* had has stopped and the StateManager has processed everything, the      *)
(* SessionState stored for the id holds the actor's message_buffer, in     *)
(* order, and its session_data.                                            *)
(***************************************************************************)
C5_SnapshotHoldsBuffer ==
    \A a \in CActorIds :
        ( /\ cactor[a].st = "stopped"
          /\ sm_mailbox = <<>>
          /\ \A b \in CActorIds \ {a} : cactor[b].st = "unused" )
        => sm_sessions[cactor[a].client_id] =
              {[message_buffer |-> cactor[a].message_buffer,
                session_data |-> cactor[a].session_data]}

(***************************************************************************)
(* C7: a snapshot is consumed by its delivery.  When the StateManager      *)
(* answers GetSessionState with a stored snapshot that holds buffered      *)
(* messages, the snapshot is gone from `sessions` afterwards.              *)
(***************************************************************************)
C7_SnapshotIsConsumed ==
    [][\A c \in HubClients :
          ( /\ StateManager_GetSessionState
            /\ Head(sm_mailbox).id = c
            /\ \E snap \in sm_sessions[c] : snap.message_buffer # <<>> )
          => sm_sessions'[c] = {}]_vars

(***************************************************************************)
(* C10: every transition of a registry record into Connected leaves its    *)
(* reconnect_attempts at 0.                                                *)
(***************************************************************************)
EntersConnected(before, after) ==
    /\ after.state = "Connected"
    /\ \A r \in before : r.state # "Connected"

C10_ConnectedMeansNoAttempts ==
    [][ /\ \A rec \in sm_agents' :
              EntersConnected(sm_agents, rec) => rec.reconnect_attempts = 0
        /\ \A c \in HubClients : \A rec \in sm_clients'[c] :
              EntersConnected(sm_clients[c], rec) => rec.reconnect_attempts = 0 ]_vars

(***************************************************************************)
(* C6: restore ordering.  On the new actor's socket the saved payloads     *)
(* m1..mk come in the saved order and none of them comes after a payload   *)
(* that the Router delivered to the new actor.                             *)
(***************************************************************************)
C6_SavedBeforeFresh ==
    \A i, j \in DOMAIN csa.sock :
        (i < j /\ csa.sock[j].p.src = "saved") =>
            /\ csa.sock[i].p.src # "fresh"
            /\ csa.sock[i].p.src = "saved" => csa.sock[i].p.n < csa.sock[j].p.n

(***************************************************************************)
(* C8: acknowledgement ends retransmission.  When the client's text        *)
(* carries the message id N of a frame it has seen, the pending-ack table  *)
(* afterwards holds no entry whose content carries message id N.           *)
(***************************************************************************)
C8_AckEndsRetransmission ==
    [][\A msg_id \in SeenIds, isAck \in BOOLEAN :
          Session_handle_Text(msg_id, isAck) =>
              \A e \in csa'.pending_acks : e.content.message_id # {msg_id}]_vars

(***************************************************************************)
(* C9: retransmit resets the timer.  Every entry that the sweep of a       *)
(* heartbeat tick finds expired is afterwards in the table with its        *)
(* sent_time at the time of the sweep.                                     *)
(***************************************************************************)
C9_RetransmitResetsTimer ==
    [][Session_heartbeat =>
          \A e \in check_expired(csa.pending_acks, now') :
              \E f \in csa'.pending_acks : f.id = e.id /\ f.sent_time = now']_vars

(***************************************************************************)
(* C11: client heartbeat timeout.  The heartbeat tick of a connected       *)
(* client actor that observes now - last_heartbeat > heartbeat_timeout     *)
(* stops the actor, having told the StateManager Disconnected and          *)
(* UnregisterClient and never Reconnecting.                                *)
(***************************************************************************)
C11_TimeoutStopsClient ==
    [][(Session_heartbeat /\ now' - csa.last_heartbeat > heartbeat_timeout) =>
          /\ csa'.st = "stopped"
          /\ SMOut("UpdateClientState", "Disconnected", <<>>) \in csa'.to_state_manager
          /\ SMOut("UnregisterClient", "", <<>>) \in csa'.to_state_manager
          /\ SMOut("UpdateClientState", "Reconnecting", <<>>) \notin csa'.to_state_manager]_vars

(***************************************************************************)
(* C12: agent give-up.  A monitor sweep that finds a silent agent          *)
(* connection which has made 10 reconnect attempts or more leaves its      *)
(* registry record in state Error.                                         *)
(***************************************************************************)
C12_SilentAgentGivenUp ==
    [][(TimedSM_monitor_connections
          /\ mon_agent.reconnect_attempts >= sm_max_reconnect_attempts) =>
          \A r \in mon_agents' : r.state = "Error"]_vars

(***************************************************************************)
(* C13: protocol error is terminal in Error.  A client record that a       *)
(* protocol error has put in state Error keeps that state while the        *)
(* StateManager processes what the actor sent, until the peer registers    *)
(* again.                                                                  *)
(***************************************************************************)
C13_ErrorIsTerminal ==
    [][\A c \in HubClients :
          (\E r \in sm_clients[c] : r.state = "Error") =>
              \/ \E r \in sm_clients'[c] : r.state = "Error"
              \/ StateManager_RegisterClient]_vars

\* The session a cookie names, if the store holds it and it has not expired.
LiveSession(cookie) ==
    {s \in registry.sessions : /\ cookie = {s.session_token}
                               /\ ~is_expired(s, session_ttl)}

\* An HTTP handler has just taken a step for this method and path: the
\* request arrived, or the request that waited has been answered.
Served(method, path) ==
    /\ store_steps' # store_steps
    /\ http'.method = method
    /\ http'.path = path
    /\ http.pc = "done" \/ http'.pc = "done"

\* C14: End-to-end upgrade over HTTP.  A POST /api/sessions/upgrade that
\* carries the cookie of a live anonymous session and a wallet address is
\* routed to the upgrade handler and answers 200 with status "success" and a
\* bearer token; the GET /api/client/{client_id} that follows it with the
\* same cookie reports is_authenticated = true and that wallet; and a GET
\* /api/protected with a bearer token the server signed answers 200.
C14_UpgradeOverHttp ==
    [][/\ (/\ Served("POST", "/api/sessions/upgrade")
           /\ \E s \in LiveSession(http'.cookie) : ~s.is_authenticated)
          => /\ http'.handler = "upgrade_session"
             /\ http'.status = 200
             /\ http'.body.status = "success"
             /\ http'.body.token # {}
       /\ (/\ http.path = "/api/sessions/upgrade"
           /\ Served("GET", "/api/client/{client_id}")
           /\ http'.cookie = http.cookie
           /\ \E s \in LiveSession(http.cookie) : s.client_id = http'.id)
          => /\ http'.status = 200
             /\ http'.body.is_authenticated
             /\ http'.body.wallet_address = http.wallet
       /\ (/\ Served("GET", "/api/protected")
           /\ \E b \in http'.bearer : validate_jwt_token(b))
          => http'.status = 200]_vars

\* The registry has just handled this message.
Handled(op) ==
    /\ store_steps' # store_steps
    /\ store_reply'.op = op

\* The session the store holds for a token: Option<ClientSession>.
Stored(token) == sessions_get(registry, token)

\* C15: Session Store upgrade round-trip.  UpdateClientSession with
\* is_authenticated = true and wallet w on a session that has not expired
\* answers Success and keeps client_id, session_token and created_at; the
\* GetClientSessionById(client_id) that follows it answers Success with
\* is_authenticated = true, wallet_address = w and the same client_id,
\* session_token and created_at.  On an expired or unknown token the update
\* answers Expired / NotFound and changes nothing in the registry.
C15_UpgradeRoundTrip ==
    [][/\ \A s \in registry.sessions, w \in Wallets :
            (/\ Handled("UpdateClientSession")
             /\ store_reply'.token = s.session_token
             /\ store_reply'.args = <<{TRUE}, {{w}}>>
             /\ ~is_expired(s, session_ttl))
            => /\ store_reply'.result = "Success"
               /\ \E u \in store_reply'.session :
                      /\ u.is_authenticated /\ u.wallet_address = {w}
                      /\ u.client_id = s.client_id
                      /\ u.session_token = s.session_token
                      /\ u.created_at = s.created_at
       /\ \A u \in store_reply.session, w \in Wallets :
            (/\ store_reply.op = "UpdateClientSession"
             /\ store_reply.args = <<{TRUE}, {{w}}>>
             /\ Handled("GetClientSessionById")
             /\ store_reply'.client_id = u.client_id)
            => /\ store_reply'.result = "Success"
               /\ \E g \in store_reply'.session :
                      /\ g.is_authenticated /\ g.wallet_address = {w}
                      /\ g.client_id = u.client_id
                      /\ g.session_token = u.session_token
                      /\ g.created_at = u.created_at
       /\ Handled("UpdateClientSession")
            => /\ Stored(store_reply'.token) = {}
                  => store_reply'.result = "NotFound" /\ registry' = registry
               /\ (\E s \in Stored(store_reply'.token) : is_expired(s, session_ttl))
                  => store_reply'.result = "Expired" /\ registry' = registry]_vars

\* An upgraded session has just been read back by its client id.
C15_Witness ==
    /\ store_reply.op = "GetClientSessionById"
    /\ store_reply.result = "Success"
    /\ \E g \in store_reply.session : g.is_authenticated /\ g.wallet_address # {}

\* C16: Invalidate is idempotent.  InvalidateClientSession(token) on a
\* stored session answers true and removes the session from the token index
\* and from the client-id index, so that a get by token and a get by client
\* id answer NotFound; on a token the store does not hold, and so on a second
\* InvalidateClientSession(token), it answers false and leaves the store as
\* it is; the sessions of other tokens are never touched.
C16_InvalidateIdempotent ==
    [][Handled("InvalidateClientSession") =>
          /\ \A s \in Stored(store_reply'.token) :
                /\ store_reply'.result = "true"
                /\ sessions_get(registry', s.session_token) = {}
                /\ lookup_get(registry', s.client_id) = {}
                /\ handle_GetClientSession(registry', s.session_token).result = "NotFound"
                /\ handle_GetClientSessionById(registry', s.client_id).result = "NotFound"
          /\ Stored(store_reply'.token) = {}
                => store_reply'.result = "false" /\ registry' = registry
          /\ (/\ store_reply.op = "InvalidateClientSession"
              /\ store_reply.token = store_reply'.token)
                => store_reply'.result = "false" /\ registry' = registry
          /\ \A s \in registry.sessions :
                s.session_token # store_reply'.token
                    => /\ s \in registry'.sessions
                       /\ lookup_get(registry', s.client_id) = lookup_get(registry, s.client_id)]_vars

\* A token that was issued and that no cleanup removed has just been
\* invalidated for the second time.
C16_Witness ==
    /\ store_reply.op = "InvalidateClientSession"
    /\ store_reply.result = "false"
    /\ store_reply.token \in 1..registry.minted
    /\ registry.metrics.expired_count = 0
    /\ registry.sessions # {}

\* C17: Session resume.  POST /api/client with a cookie whose token names a
\* session that has not expired answers with that session's client_id and
\* new_session = false, sets no cookie and leaves the number of sessions as
\* it is.  The handler goes on to register a new session only when the
\* cookie's session is expired or unknown, and a POST /api/client creates a
\* session (new_session = true, a new cookie) only with no cookie or after
\* that.
C17_SessionResume ==
    [][Served("POST", "/api/client") =>
          /\ \A s \in LiveSession(http'.cookie) :
                http.pc = "done"
                    => /\ http'.pc = "done"
                       /\ http'.status = 200
                       /\ http'.body.client_id = s.client_id
                       /\ ~http'.body.new_session
                       /\ http'.set_cookie = {}
                       /\ Cardinality(registry'.sessions) = Cardinality(registry.sessions)
                       /\ registry'.minted = registry.minted
          /\ http'.pc = "register"
                => /\ http'.cookie # {}
                   /\ LiveSession(http'.cookie) = {}
                   /\ registry'.sessions = registry.sessions
          /\ (registry'.minted # registry.minted \/ http'.set_cookie # {})
                => /\ http'.cookie = {} \/ http.pc = "register"
                   /\ http'.body.new_session
                   /\ http'.body.client_id = registry'.minted
                   /\ http'.set_cookie = {registry'.minted}
                   /\ Cardinality(registry'.sessions) = Cardinality(registry.sessions) + 1]_vars

\* A POST /api/client with the cookie of a live session has been answered
\* with the session it names.
C17_Witness ==
    /\ http.handler = "create_client"
    /\ http.cookie # {}
    /\ http.status = 200
    /\ ~http.body.new_session
    /\ \E s \in registry.sessions :
          http.cookie = {s.session_token} /\ http.body.client_id = s.client_id

\* C18: Proxy upgrade gate.  A GET /ws/{client_id} is answered 400 when the
\* path id is malformed, 401 when the registry answers Expired or NotFound
\* for the cookie's token, and 403 when the cookie's session belongs to
\* another client id; a request answered so starts no ProxyActor (and so
\* dials no Hub connection), leaves active_connections as it is and sends no
\* close to an existing connection.
C18_UpgradeGate ==
    [][\A r \in ProxyIds :
          (route[r].pc # "done" /\ route'[r].pc = "done") =>
              /\ ~route'[r].path_ok => route'[r].status = 400
              /\ route'[r].answer \in {"Expired", "NotFound"} => route'[r].status = 401
              /\ (/\ route'[r].answer = "Success"
                  /\ \E t \in route'[r].cookie : TokenClient(t) # route'[r].client_id)
                    => route'[r].status = 403
              /\ route'[r].status \in {400, 401, 403}
                    => /\ proxy' = proxy
                       /\ active_connections' = active_connections
                       /\ proxyStarts' = proxyStarts]_vars

\* A request with the cookie of another client's session was refused while
\* that session's connection is registered and running, no close sent to it.
C18_Witness ==
    \E r \in ProxyIds, t \in Tokens, a \in ProxyIds :
        /\ route[r].status = 403
        /\ route[r].cookie = {t}
        /\ proxy[r].st = "unused"
        /\ active_connections[t] = {a}
        /\ proxy[a].st = "running"
        /\ ~proxy[a].close_sent
        /\ proxy[a].mailbox = <<>>

\* The agent connections admitted so far.
Admitted == {a \in AActorIds : aactor[a].st # "unused"}

C20_TokenConfidentiality ==
    /\ \A line \in log : line.token = {}
    /\ http.status >= 400 => http.body = ErrorBody(http.body.error)

\* A request presented a cookie the store does not know, was answered 401,
\* and log lines have been written.
C20_Witness ==
    /\ http.handler = "get_client_info"
    /\ http.cookie # {}
    /\ http.status = 401
    /\ store_reply.op = "GetClientSession"
    /\ store_reply.token \in http.cookie
    /\ store_reply.result = "NotFound"
    /\ log # {}

\* C21: Proxy heartbeat timeout.  The heartbeat tick that finds the browser
\* silent for more than 30 s closes the browser socket and the connection to
\* the Hub, stops the actor and removes its session token from
\* active_connections.
C21_TimeoutClosesBothSides ==
    [][Link_heartbeat(TRUE) =>
          /\ link'.st = "stopped"
          /\ link'.to_browser = "close"
          /\ link'.open = 0 /\ link'.dialing = 0
          /\ \A t \in link.session_token : active_connections'[t] = {}]_vars

\* C29: Backoff value.  The delay of the last reconnection a ProxyActor
\* scheduled, at attempt reconnect_attempts - 1, is min(2^attempt, 60)
\* seconds and its computation did not overflow: 1, 2, 4, 8, 16, 32 for
\* attempts 0..5 and 60 for every attempt from 6 on.
C29_BackoffValue ==
    /\ link.st # "panicked"
    /\ link.delay # {} =>
          link.delay = {IF link.reconnect_attempts - 1 >= 6 THEN 60
                        ELSE 2 ^ (link.reconnect_attempts - 1)}

\* C30: Proxy reconnect cap.  reconnect_attempts never exceeds 10, nothing is
\* dialled and no timer is pending once the cap is reached, and a dial that
\* succeeds resets reconnect_attempts to 0.
C30_ReconnectCap ==
    [][/\ link'.reconnect_attempts <= 10
       /\ (link'.reconnect_attempts = 10 /\ link'.st = "running")
            => (link'.timers = 0 /\ link'.dialing = 0)
       /\ Link_dial_connected(FALSE) => link'.reconnect_attempts = 0]_vars

\* C22: Broadcast fan-out.  When the Router handles an AgentMessage without a
\* target, it makes one try_send to every client registered at that moment
\* and to nobody else, each with the same serialized message; every client
\* whose mailbox can take it gets it whatever happened to the other sends,
\* and the Router's own state is as before.
C22_BroadcastFanOut ==
    [][\A full \in SUBSET ClientTargets :
          Router_handle_AgentMessage(AgentMessage({}), full) =>
             /\ {o.to : o \in routed'.offers} = {ClientTarget(c) : c \in router.clients}
             /\ \A o \in routed'.offers :
                   /\ o.content = to_string(AgentMessage({}))
                   /\ o.ok <=> o.to \notin full
             /\ router' = router]_vars

\* A broadcast with two clients registered: the send to client 1 failed and
\* the send to client 2 succeeded.
C22_Witness ==
    /\ routed.msg = AgentMessage({})
    /\ router.clients = {1, 2}
    /\ \E o \in routed.offers : o.to = ClientTarget(1) /\ ~o.ok
    /\ \E o \in routed.offers : o.to = ClientTarget(2) /\ o.ok

C28_OneAgentOnly ==
    [][\A c \in RouterClientIds, full \in SUBSET AgentTargets :
          (Router_handle_ClientMessage(ClientMessage(c), full)
             /\ Router_get_default_agent(router) = {})
          => Cardinality({o \in routed'.offers : o.ok}) <= 1]_vars

\* C23: In every state of the Session Store, a session is authenticated
\* exactly when it has a wallet address.
C23_AuthenticatedHasWallet ==
    \A session \in registry.sessions :
        session.is_authenticated <=> session.wallet_address # {}

\* C24: the message buffer of a client actor never holds more than
\* max_buffer_size (100) entries, in any reachable state, a session restore
\* included (buffer_message at 100 entries drops the payload).
C24_BufferWithinCapacity ==
    Len(csa.message_buffer) <= max_buffer_size

\* C26: the delivery tracker's pending_acks never holds more entries than
\* the buffer capacity (100), however many tracked payloads are delivered
\* without being acknowledged.
C26_PendingAcksWithinCapacity ==
    Cardinality(csa.pending_acks) <= max_buffer_size
\* C27: an agent record that has stayed in a state other than Connected
\* for more than 3 x agent_timeout is deleted by the next monitor sweep,
\* which runs within cleanup_interval: no record is older than that in a
\* state other than Connected.
C27_ReaperCompleteness ==
    \A r \in mon_agents :
        r.state # "Connected" =>
            mon_now - r.since <= 3 * agent_timeout + cleanup_interval
\* C31: a snapshot whose last_seen is older than the session TTL (3600 s)
\* is never handed out: the reply to GetSessionState holds no snapshot
\* older than that, whether or not the cleanup has run since it expired.
C31_ExpiredSnapshotNotDelivered ==
    snapshots.asked => \A s \in snapshots.reply : snapshots.now - s.last_seen <= sm_session_ttl
\* C32: Session reaping is exact.  A cleanup sweep removes from the token
\* index exactly the sessions idle for more than the TTL and from the
\* client-id index exactly their client ids; a session idle for exactly the
\* TTL is kept and GetClientSession still returns it; the count of removed
\* sessions is what the sweep adds to expired_count; every other session is
\* as it was.
C32_ReapingIsExact ==
    [][Registry_cleanup_sessions =>
          LET age(s) == store_now - s.last_active
              gone == {s \in registry.sessions : age(s) > session_ttl}
          IN /\ \A s \in registry.sessions :
                   IF age(s) > session_ttl
                   THEN /\ sessions_get(registry', s.session_token) = {}
                        /\ lookup_get(registry', s.client_id) = {}
                   ELSE /\ s \in registry'.sessions
                        /\ lookup_get(registry', s.client_id)
                               = lookup_get(registry, s.client_id)
                        /\ handle_GetClientSession(registry', s.session_token).result
                               = "Success"
             /\ registry'.sessions \subseteq registry.sessions
             /\ registry'.client_lookup \subseteq registry.client_lookup
             /\ registry'.metrics.expired_count
                    = registry.metrics.expired_count + Cardinality(gone)]_vars

\* A sweep has just run with a session idle for exactly the TTL, which is
\* still stored.
C32_Witness ==
    /\ store_reply.op = "cleanup_sessions"
    /\ \E s \in registry.sessions : store_now - s.last_active = session_ttl
\* C33: Session Store index consistency.  In every reachable state the
\* token index holds one session per token, the client-id index holds the
\* pair (c, t) exactly when the session stored under t has client id c, and
\* no two stored sessions share a client id.
C33_IndexConsistency ==
    /\ \A s1, s2 \in registry.sessions :
          (s1.session_token = s2.session_token \/ s1.client_id = s2.client_id)
              => s1 = s2
    /\ registry.client_lookup =
          {<<s.client_id, s.session_token>> : s \in registry.sessions}

\* Two sessions were registered and one of them has just been invalidated
\* or swept.
C33_Witness ==
    /\ registry.minted = 2
    /\ Cardinality(registry.sessions) = 1
    /\ store_reply.op \in {"InvalidateClientSession", "cleanup_sessions"}
\* C39: Expiry is permanent.  Once GetClientSession would answer Expired
\* for a token, no operation on the store makes GetClientSession or
\* GetClientSessionById answer Success for that session again: after every
\* step the session is still expired, or it is gone.
C39_ExpiryIsPermanent ==
    [][\A s \in registry.sessions :
          handle_GetClientSession(registry, s.session_token).result = "Expired"
             => /\ handle_GetClientSession(registry, s.session_token).result' # "Success"
                /\ handle_GetClientSessionById(registry, s.client_id).result' # "Success"]_vars
\* C40: A session token is disclosed only to its creator.  A response that
\* carries a token in Set-Cookie is the POST /api/client response whose
\* RegisterAnonymousClient created that session; a GET /api/client/{id}
\* without a session cookie gets no Set-Cookie.
C40_TokenOnlyToCreator ==
    http.set_cookie # {} =>
        /\ http.handler = "create_client"
        /\ store_reply.op = "RegisterAnonymousClient"
        /\ http.set_cookie = {x.session_token : x \in store_reply.session}
\* The payloads send_buffered_messages has written so far (they carry no
\* message id), followed by those still in the buffer.
Flushed ==
    LET frames == SelectSeq(csa.sock, LAMBDA f : f.t = "text" /\ f.p.message_id = {})
    IN  [i \in DOMAIN frames |-> frames[i].p]

\* The rank of a buffered payload: those buffered before the start in the
\* order of the calls, then those of the restored snapshot in its order.
FlushRank(p) == IF p.src = "fresh" THEN p.n ELSE MaxBacklog + p.n

C36_SingleUpstream ==
    link.dialing + link.open <= 1

\* C35: every invocation of monitor_connections returns: the sweep never
\* leaves the StateManager waiting for a shard lock that its own iteration
\* holds, whatever record it finds.
C35_SweepCompletes ==
    [][TimedSM_monitor_connections => ~mon_blocked']_vars

\* C38: each ended connection of a client is counted once: when every
\* connection of the id has ended and the StateManager has handled all its
\* messages, the record's disconnection_count is the number of connections
\* that have ended.
C38_CountedOnce ==
    (tally.conn = "stopped" /\ tally.mailbox = <<>>) =>
        \A r \in tally.record : r.disconnection_count = tally.ended

\* C37: the Router and the StateManager agree on liveness: when both
\* mailboxes are empty, an id is Connected in the StateManager's registry
\* exactly when the Router holds an address for it, and that address is the
\* one in the StateManager's record.
C37_LivenessViewsAgree ==
    (sm_mailbox = <<>> /\ rt_mailbox = <<>>) =>
        /\ \A c \in HubClients :
              /\ (\E r \in sm_clients[c] : r.state = "Connected") <=> rt_clients[c] # {}
              /\ \A r \in sm_clients[c] :
                    r.state = "Connected" => rt_clients[c] = {r.addr}
        /\ (\E r \in sm_agents : r.state = "Connected") <=> rt_agents # {}
        /\ \A r \in sm_agents : r.state = "Connected" => rt_agents = {r.addr}

====
